---- MODULE Spec2Model ----
(***************************************************************************)
(* Omega3D: the per-step vortex-particle / BEM pipeline.                   *)
(*                                                                         *)
(*   Diffusion<S,A,I>::step      src/src/Diffusion.h                       *)
(*   Simulation                  src/src/Simulation.cpp, Simulation.h      *)
(*   main (batch driver)         src/src/main_batch.cpp                    *)
(*                                                                         *)
(* Geometry is reduced to one axis: a closed reactive surface is a slab    *)
(* [lo, hi] carried by two panels (outward normals -1 and +1).  Lengths    *)
(* are integers in units of 1e-5, times in ticks of 0.005, so that the     *)
(* constructor's dt = 0.01 (2 ticks) and re = 100 give h_nu = 1000.        *)
(* Real factors are fixed-point numbers over Scale.  Strengths are integer *)
(* 3-vectors.                                                              *)
(*                                                                         *)
(* Reflect.h, Merge.h, VRM.h, Split.h, Convection.h, BEM.h, Points.h and   *)
(* Surfaces.h are not part of the sources at hand; the operators that      *)
(* stand for them follow their description in the specification document.  *)
(***************************************************************************)
EXTENDS Integers, Sequences, FiniteSets, TLC

(***************************************************************************)
(* Bounds of the model.                                                    *)
(***************************************************************************)
\* particles a Points collection may hold
MaxParts == 3
\* particles the user adds per run
MaxUser == 2
\* calls of Simulation::step per run
MaxSteps == 2
\* boundary features (slabs) added per run
MaxBodies == 1
\* field points added per run
MaxFldpts == 1

(***************************************************************************)
(* Program constants, as fixed-point numbers over Scale.                   *)
(***************************************************************************)
Scale == 1000
\* Diffusion(): nom_sep_scaled(std::sqrt(8.0))
nom_sep_scaled == 2828
\* Diffusion(): particle_overlap(1.5)
particle_overlap == 1500
\* Diffusion(): merge_thresh(0.2)
merge_thresh == 200
\* 1.0/std::sqrt(2.0*M_PI), the cutoff multiplier of clear_inner_layer
InnerMult == 399
\* 0.01*h_nu, the offset of a shed before diffusion
ShedOnMult == 10
\* h_nu*std::sqrt(4.0/M_PI), the offset of a shed after the clear
ShedOffMult == 1128
\* split_elongated(..., 1.2): elongations are in tenths
SplitThresh == 12
\* Simulation(): re(100.0)
ReDefault == 100
\* Simulation(): dt(0.01), in ticks
DtDefault == 2
\* Simulation(): end_time(100.0), in ticks
EndTimeDefault == 20000
\* Simulation(): max_steps(100)
MaxStepsDefault == 100
\* Diffusion(): h_nu(0.1)
HnuDefault == 10000
\* one tick over the square of the unit of length: 0.005 / (1e-5)^2
TickArea == 50000000
\* nstep%5 == 0: field points are pushed every few steps
FldptPeriod == 5
\* clear_inner_layer(1, bdry, fldpt, 0.0, 0.5*get_ips())
FldptMult == 0
HalfScaled == 500

(***************************************************************************)
(* Arithmetic helpers.                                                     *)
(***************************************************************************)
Abs(a) == IF a < 0 THEN -a ELSE a

Min2(a, b) == IF a <= b THEN a ELSE b

Max2(a, b) == IF a >= b THEN a ELSE b

\* multiplication by a fixed-point factor
Mul(f, a) == (f * a) \div Scale

RECURSIVE SqrtSearch(_, _, _)
SqrtSearch(a, lo, hi) ==
  IF hi - lo <= 1 THEN lo
  ELSE LET mid == (lo + hi) \div 2
       IN IF mid * mid <= a THEN SqrtSearch(a, mid, hi)
          ELSE SqrtSearch(a, lo, mid)

\* std::sqrt on integers, rounded down
Sqrt(a) == SqrtSearch(a, 0, 46340)

Zero3 == <<0, 0, 0>>

VAdd(a, b) == <<a[1] + b[1], a[2] + b[2], a[3] + b[3]>>

VSub(a, b) == <<a[1] - b[1], a[2] - b[2], a[3] - b[3]>>

VNeg(a) == <<-a[1], -a[2], -a[3]>>

\* a vector times a fixed-point weight, each component rounded down
VMul(f, a) == <<(f * a[1]) \div Scale, (f * a[2]) \div Scale, (f * a[3]) \div Scale>>

\* strength magnitude (1-norm)
Mag(a) == Abs(a[1]) + Abs(a[2]) + Abs(a[3])

RECURSIVE SumStr(_)
SumStr(pts) ==
  IF pts = <<>> THEN Zero3 ELSE VAdd(pts[1].s, SumStr(Tail(pts)))

RECURSIVE MaxStrOf(_)
MaxStrOf(pts) ==
  IF pts = <<>> THEN 0 ELSE Max2(Mag(pts[1].s), MaxStrOf(Tail(pts)))

RECURSIVE Concat(_)
Concat(ss) == IF ss = <<>> THEN <<>> ELSE ss[1] \o Concat(Tail(ss))

(***************************************************************************)
(* Derived lengths: Simulation::get_hnu, get_ips, get_vdelta and           *)
(* Diffusion::get_nom_sep.                                                 *)
(***************************************************************************)
\* std::sqrt(dt/re), in units of length
SqrtRatio(dt_, re_) == Sqrt((dt_ * TickArea) \div re_)

get_hnu(dt_, re_) == SqrtRatio(dt_, re_)

get_nom_sep(hnu) == Mul(nom_sep_scaled, hnu)

get_ips(dt_, re_) == Mul(nom_sep_scaled, get_hnu(dt_, re_))

get_vdelta(dt_, re_) == Mul(particle_overlap, get_ips(dt_, re_))

(***************************************************************************)
(* Collections.  A particle is [x, s, r, elong]; a panel is [x, n, str]    *)
(* with outward normal n; the panels of a Surfaces collection come in      *)
(* pairs (left face, right face), one pair per closed surface.             *)
(***************************************************************************)
Particle(x, s, r) == [x |-> x, s |-> s, r |-> r, elong |-> 10]

\* Points<S>(batch, elem type, move type, nullptr)
Points(batch, elemt, movet) ==
  [kind |-> "Points", elemt |-> elemt, movet |-> movet, body |-> 0,
   pts |-> batch, panels |-> <<>>, max_str |-> 0]

\* Surfaces<S>(x, idx, val, reactive, move type, body)
Surfaces(panels, movet, body) ==
  [kind |-> "Surfaces", elemt |-> "reactive", movet |-> movet, body |-> body,
   pts |-> <<>>, panels |-> panels, max_str |-> 0]

\* elem.is_inert()
is_inert(coll) == coll.elemt = "inert"

\* the two panels of the closed surface [lo, hi]
SlabPanels(lo, hi) ==
  << [x |-> lo, n |-> -1, str |-> Zero3], [x |-> hi, n |-> 1, str |-> Zero3] >>

SlabsOf(coll) ==
  [k \in 1..(Len(coll.panels) \div 2) |->
     [lo |-> coll.panels[2 * k - 1].x, hi |-> coll.panels[2 * k].x]]

AllSlabs(bdry_) ==
  Concat([i \in 1..Len(bdry_) |->
            IF bdry_[i].kind = "Surfaces" THEN SlabsOf(bdry_[i]) ELSE <<>>])

\* distance of x to the surface of a slab: negative inside
SignedDist(slab, x) ==
  IF x <= slab.lo THEN slab.lo - x
  ELSE IF x >= slab.hi THEN x - slab.hi
  ELSE -Min2(x - slab.lo, slab.hi - x)

StrictlyInside(slabs, x) ==
  \E k \in 1..Len(slabs) : slabs[k].lo < x /\ x < slabs[k].hi

\* some particle of the list of collections lies strictly inside a surface
AnyInterior(bdry_, colls) ==
  \E c \in 1..Len(colls) : \E i \in 1..Len(colls[c].pts) :
    StrictlyInside(AllSlabs(bdry_), colls[c].pts[i].x)

NearestSlab(slabs, x) ==
  CHOOSE k \in 1..Len(slabs) :
    \A m \in 1..Len(slabs) :
      /\ SignedDist(slabs[k], x) <= SignedDist(slabs[m], x)
      /\ (SignedDist(slabs[k], x) = SignedDist(slabs[m], x) => k <= m)

\* the exterior point at distance d from the face of the slab nearest to x
OutwardAt(slab, x, d) ==
  IF x - slab.lo <= slab.hi - x THEN slab.lo - d ELSE slab.hi + d

(***************************************************************************)
(* Clear-Inner.  clear_inner_layer(method, bdry, targets, cutoff_mult,     *)
(* ips): the cutoff distance is cutoff_mult*ips.  Method 1 pushes every    *)
(* particle closer than the cutoff out to exactly the cutoff; method 0     *)
(* also removes those whose strength is under the threshold.               *)
(***************************************************************************)
ClearCutoff(cutoff_mult, ips_) == Mul(cutoff_mult, ips_)

PushPoint(slabs, p, cutoff) ==
  IF slabs = <<>> THEN p
  ELSE LET sl == slabs[NearestSlab(slabs, p.x)]
       IN IF SignedDist(sl, p.x) < cutoff
          THEN [p EXCEPT !.x = OutwardAt(sl, p.x, cutoff)]
          ELSE p

InLayer(slabs, p, cutoff) ==
  slabs # <<>> /\ SignedDist(slabs[NearestSlab(slabs, p.x)], p.x) < cutoff

ClearPoints(method, slabs, pts, cutoff, thresh) ==
  LET Keep(p) == method = 1 \/ ~InLayer(slabs, p, cutoff) \/ Mag(p.s) >= thresh
      kept == SelectSeq(pts, Keep)
  IN [i \in 1..Len(kept) |-> PushPoint(slabs, kept[i], cutoff)]

clear_inner_layer(method, bdry_, targ, cutoff_mult, ips_) ==
  LET slabs == AllSlabs(bdry_)
      cutoff == ClearCutoff(cutoff_mult, ips_)
  IN [c \in 1..Len(targ) |->
        IF targ[c].kind = "Points"
        THEN [targ[c] EXCEPT
                !.pts = ClearPoints(method, slabs, @, cutoff,
                                    Mul(cutoff_mult, MaxStrOf(targ[c].pts)) + 1)]
        ELSE targ[c]]

(***************************************************************************)
(* Reflect: a particle strictly inside a closed surface is mirrored to     *)
(* the exterior at the same perpendicular distance; strength is kept.      *)
(***************************************************************************)
ReflectPoint(slabs, p) ==
  IF StrictlyInside(slabs, p.x)
  THEN LET sl == slabs[NearestSlab(slabs, p.x)]
       IN [p EXCEPT !.x = OutwardAt(sl, p.x, -SignedDist(sl, p.x))]
  ELSE p

reflect_interior(bdry_, targ) ==
  LET slabs == AllSlabs(bdry_)
  IN [c \in 1..Len(targ) |->
        IF targ[c].kind = "Points"
        THEN [targ[c] EXCEPT
                !.pts = [i \in 1..Len(@) |-> ReflectPoint(slabs, @[i])]]
        ELSE targ[c]]

(***************************************************************************)
(* Shedder: Surfaces::represent_as_particles(offset, vdelta) gives one     *)
(* particle per panel, at the panel centre displaced along the outward     *)
(* normal, carrying the panel's sheet strength, with radius vdelta.        *)
(***************************************************************************)
represent_as_particles(surf, offset, vdelta) ==
  [k \in 1..Len(surf.panels) |->
     Particle(surf.panels[k].x + surf.panels[k].n * offset,
              surf.panels[k].str, vdelta)]

(***************************************************************************)
(* BEM: solve_bem gives every panel a sheet strength.  The solution here   *)
(* follows the freestream g handed to the solver: strength g on faces with *)
(* normal +1 and -g on faces with normal -1, so that a closed surface      *)
(* carries no net circulation.                                             *)
(***************************************************************************)
SolvePanels(panels, g) ==
  [k \in 1..Len(panels) |->
     [panels[k] EXCEPT !.str = IF panels[k].n = 1 THEN g ELSE VNeg(g)]]

solve_bem(bdry_, g) ==
  [b \in 1..Len(bdry_) |->
     IF bdry_[b].kind = "Surfaces"
     THEN [bdry_[b] EXCEPT !.panels = SolvePanels(@, g)]
     ELSE bdry_[b]]

(***************************************************************************)
(* VRM.  Every parent with non-zero strength gives each neighbour within   *)
(* VrmReach*h_nu the share VrmWeight of its strength and loses the sum of  *)
(* what it gave, the same weight on all three components.  The outcome of  *)
(* a parent's local system is an input: "infeasible" leaves the parent     *)
(* alone, "spread" uses the neighbours at hand, "spawn" first adds a       *)
(* particle of zero strength at the missing lattice position.              *)
(***************************************************************************)
VrmChoices == {"infeasible", "spread", "spawn"}

VrmWeight == 250

VrmReach == 3

VTimes(k, a) == <<k * a[1], k * a[2], k * a[3]>>

Neighbours(pts, i, hnu) ==
  {j \in 1..Len(pts) : j # i /\ Abs(pts[j].x - pts[i].x) <= VrmReach * hnu}

\* the lattice position a parent misses: one nominal separation to its right
LatticeSite(p, hnu) == p.x + get_nom_sep(hnu)

RECURSIVE VrmSpawn(_, _, _, _, _, _)
VrmSpawn(pts, n, hnu, ch, cap, i) ==
  IF i > n THEN pts
  ELSE IF /\ ch[i] = "spawn"
          /\ Mag(pts[i].s) > 0
          /\ Len(pts) < cap
          /\ \A j \in 1..Len(pts) : pts[j].x # LatticeSite(pts[i], hnu)
       THEN VrmSpawn(Append(pts, Particle(LatticeSite(pts[i], hnu), Zero3, pts[i].r)),
                     n, hnu, ch, cap, i + 1)
       ELSE VrmSpawn(pts, n, hnu, ch, cap, i + 1)

\* the change of particle j's strength caused by the parents i..n
RECURSIVE VrmDelta(_, _, _, _, _, _)
VrmDelta(ext, n, hnu, ch, j, i) ==
  IF i > n THEN Zero3
  ELSE LET rest == VrmDelta(ext, n, hnu, ch, j, i + 1)
           nb == Neighbours(ext, i, hnu)
           gain == VMul(VrmWeight, ext[i].s)
       IN IF Mag(ext[i].s) = 0 \/ ch[i] = "infeasible" \/ nb = {} THEN rest
          ELSE IF j = i THEN VSub(rest, VTimes(Cardinality(nb), gain))
          ELSE IF j \in nb THEN VAdd(rest, gain)
          ELSE rest

\* VRM::diffuse_all(pos, str, rad, h_nu, core_func, particle_overlap); the
\* arrays grow to at most cap particles
diffuse_all(pts, hnu, ch, cap) ==
  LET n == Len(pts)
      ext == VrmSpawn(pts, n, hnu, ch, cap, 1)
  IN [j \in 1..Len(ext) |->
        [ext[j] EXCEPT !.s = VAdd(@, VrmDelta(ext, n, hnu, ch, j, 1))]]

(***************************************************************************)
(* Merge.  A pair whose separation over the mean radius is under the       *)
(* threshold, with equal radii, becomes one particle at the strength-      *)
(* weighted centroid carrying the vector sum of the strengths.  Pairs are  *)
(* taken in the order of (min(i,j), max(i,j)) until none qualifies.        *)
(***************************************************************************)
Mergeable(p, q, thresh) ==
  p.r = q.r /\ 2 * Scale * Abs(p.x - q.x) < thresh * (p.r + q.r)

MergedPair(p, q) ==
  LET wp == Mag(p.s)
      wq == Mag(q.s)
  IN [p EXCEPT !.x = IF wp + wq = 0 THEN (p.x + q.x) \div 2
                     ELSE (wp * p.x + wq * q.x) \div (wp + wq),
               !.s = VAdd(p.s, q.s),
               !.elong = Max2(p.elong, q.elong)]

RemoveAt(seq, j) == [k \in 1..(Len(seq) - 1) |-> IF k < j THEN seq[k] ELSE seq[k + 1]]

RECURSIVE MergePoints(_, _)
MergePoints(pts, thresh) ==
  LET pairs == {ij \in (1..Len(pts)) \X (1..Len(pts)) :
                  ij[1] < ij[2] /\ Mergeable(pts[ij[1]], pts[ij[2]], thresh)}
  IN IF pairs = {} THEN pts
     ELSE LET ij == CHOOSE a \in pairs :
                      \A b \in pairs : a[1] < b[1] \/ (a[1] = b[1] /\ a[2] <= b[2])
          IN MergePoints(RemoveAt([pts EXCEPT ![ij[1]] = MergedPair(pts[ij[1]], pts[ij[2]])],
                                  ij[2]),
                         thresh)

\* merge_operation(vort, particle_overlap, merge_thresh, adaptive_radii)
merge_operation(targ, thresh) ==
  [c \in 1..Len(targ) |->
     IF targ[c].kind = "Points" /\ ~is_inert(targ[c])
     THEN [targ[c] EXCEPT !.pts = MergePoints(@, thresh)]
     ELSE targ[c]]

(***************************************************************************)
(* Split.  A particle whose elongation exceeds the threshold becomes two,  *)
(* half a radius either side, sharing its strength; elongation restarts.   *)
(***************************************************************************)
VHalf(a) == <<a[1] \div 2, a[2] \div 2, a[3] \div 2>>

RECURSIVE split_elongated(_, _)
split_elongated(pts, thresh) ==
  IF pts = <<>> THEN <<>>
  ELSE LET p == pts[1]
           rest == split_elongated(Tail(pts), thresh)
       IN IF p.elong > thresh
          THEN << [p EXCEPT !.x = p.x - p.r \div 2, !.s = VHalf(p.s), !.elong = 10],
                  [p EXCEPT !.x = p.x + p.r \div 2, !.s = VSub(p.s, VHalf(p.s)),
                            !.elong = 10] >> \o rest
          ELSE <<p>> \o rest

(***************************************************************************)
(* Convection.  advect_2nd solves the BEM and moves every Lagrangian       *)
(* element; the displacement of each particle and the particle that is     *)
(* stretched are inputs.  advect_1st with dt = 0 solves the BEM and finds  *)
(* velocities, and moves nothing.                                          *)
(***************************************************************************)
MovePoints(pts, mv, stretch, elong) ==
  [i \in 1..Len(pts) |->
     [pts[i] EXCEPT !.x = @ + mv[i],
                    !.elong = IF i = stretch THEN elong ELSE @]]

advect_vort(targ, mv, stretch, elong) ==
  [c \in 1..Len(targ) |->
     IF targ[c].kind = "Points" /\ targ[c].movet = "lagrangian"
     THEN [targ[c] EXCEPT !.pts = MovePoints(@, mv, stretch, elong)]
     ELSE targ[c]]

advect_fldpt(targ, fmv) ==
  [c \in 1..Len(targ) |->
     IF targ[c].kind = "Points" /\ targ[c].movet = "lagrangian"
     THEN [targ[c] EXCEPT !.pts = [i \in 1..Len(@) |-> [@[i] EXCEPT !.x = @ + fmv]]]
     ELSE targ[c]]

(***************************************************************************)
(* The record of the operations of the last Simulation::step, in order.    *)
(* A clear_inner entry holds the arguments of the call, whether a target   *)
(* was strictly inside a surface when it returned, and whether it left the *)
(* number of targets and their strengths alone; a solve_bem entry holds    *)
(* whether a vortex particle was strictly inside a surface at the solve.   *)
(***************************************************************************)
Entry(op, on, coll, mode, mult, len, interior, kept) ==
  [op |-> op, on |-> on, coll |-> coll, mode |-> mode, mult |-> mult,
   len |-> len, interior |-> interior, kept |-> kept]

Plain(op, on, coll) == Entry(op, on, coll, 0, 0, 0, FALSE, TRUE)

Strengths(colls) ==
  [c \in 1..Len(colls) |-> [i \in 1..Len(colls[c].pts) |-> colls[c].pts[i].s]]

(***************************************************************************)
(* The call sites of Diffusion::step and Simulation::step.                 *)
(***************************************************************************)
\* clear_inner_layer<S>(1, _bdry, _vort, 1.0/std::sqrt(2.0*M_PI), get_nom_sep(h_nu))
FirstClearArgs(hnu) ==
  [mode |-> 1, mult |-> InnerMult, len |-> get_nom_sep(hnu)]

\* the commented-out call: clear_inner_layer<S>(0, _bdry, _vort, 0.0, _vdelta/particle_overlap)
SecondClearArgsTrim(sbd, vdelta) ==
  IF sbd
  THEN [mode |-> 0, mult |-> 0, len |-> (vdelta * Scale) \div particle_overlap]
  ELSE [mode |-> 1, mult |-> InnerMult, len |-> (vdelta * Scale) \div particle_overlap]

\* a call whose cutoff is the whole of _vdelta/particle_overlap
SecondClearArgsWhole(sbd, vdelta) ==
  [mode |-> 1, mult |-> Scale, len |-> (vdelta * Scale) \div particle_overlap]

\* clear_inner_layer<S>(1, _bdry, _vort, 1.0/std::sqrt(2.0*M_PI), _vdelta/particle_overlap),
\* the same call in both branches of if (shed_before_diffuse)
SecondClearArgs(sbd, vdelta) ==
  IF sbd
  THEN [mode |-> 1, mult |-> InnerMult, len |-> (vdelta * Scale) \div particle_overlap]
  ELSE [mode |-> 1, mult |-> InnerMult, len |-> (vdelta * Scale) \div particle_overlap]

\* the push of the field points made with method 0, which removes weak points
FldptClearArgsTrim(ips_) ==
  [mode |-> 0, mult |-> FldptMult, len |-> Mul(HalfScaled, ips_)]

\* clear_inner_layer<STORE>(1, bdry, fldpt, (STORE)0.0, (STORE)(0.5*get_ips()))
FldptClearArgs(ips_) ==
  [mode |-> 1, mult |-> FldptMult, len |-> Mul(HalfScaled, ips_)]

\* surf.represent_as_particles(0.01*(S)h_nu, _vdelta)
ShedBeforeOffset(hnu) == Mul(ShedOnMult, hnu)

\* surf.represent_as_particles(h_nu*std::sqrt(4.0/M_PI), _vdelta)
ShedAfterOffset(hnu) == Mul(ShedOffMult, hnu)

\* if (shed_before_diffuse)
ShedsBefore(sbd) == sbd

ShedsAfterAlways(sbd) == TRUE

\* if (not shed_before_diffuse)
ShedsAfter(sbd) == ~sbd

(***************************************************************************)
(* The stages of Diffusion::step, each on d = [vort, bdry, bem, h_nu, log]. *)
(***************************************************************************)
D_Clear(d, on, args) ==
  LET out == clear_inner_layer(args.mode, d.bdry, d.vort, args.mult, args.len)
  IN [d EXCEPT !.vort = out,
               !.log = Append(@, Entry("clear_inner", on, 0, args.mode, args.mult,
                                       args.len, AnyInterior(d.bdry, out),
                                       Strengths(out) = Strengths(d.vort)))]

D_Bem(d, g) ==
  [d EXCEPT !.bdry = solve_bem(@, g),
            !.bem = "solved",
            !.log = Append(@, Entry("solve_bem", "bdry", 0, 0, 0, 0,
                                    AnyInterior(d.bdry, d.vort), TRUE))]

\* the body of for (auto &coll : _bdry) of a shed, from collection b on
RECURSIVE D_Shed(_, _, _, _, _)
D_Shed(d, on, offset, vdelta, b) ==
  IF b > Len(d.bdry) THEN d
  ELSE IF d.bdry[b].kind # "Surfaces" THEN D_Shed(d, on, offset, vdelta, b + 1)
  ELSE LET new_pts == represent_as_particles(d.bdry[b], offset, vdelta)
           last == Len(d.vort)
           vort2 == IF last = 0
                    THEN << Points(new_pts, "active", "lagrangian") >>
                    ELSE IF d.vort[last].kind = "Points"
                         THEN [d.vort EXCEPT ![last].pts = @ \o new_pts]
                         ELSE d.vort
       IN D_Shed([d EXCEPT !.vort = vort2,
                           !.log = Append(@, Entry("shed", on, b, 0, 0, offset,
                                                   FALSE, TRUE))],
                 on, offset, vdelta, b + 1)

\* the diffusion with the collection resized to the count it had before VRM
RECURSIVE D_VrmTruncated(_, _, _, _, _)
D_VrmTruncated(d, hnu, ch, cap, c) ==
  IF c > Len(d.vort) THEN d
  ELSE IF is_inert(d.vort[c]) \/ d.vort[c].kind # "Points"
       THEN D_VrmTruncated(d, hnu, ch, cap, c + 1)
  ELSE D_VrmTruncated(
         [d EXCEPT !.vort[c].pts = SubSeq(diffuse_all(@, hnu, ch, cap), 1, Len(@)),
                   !.log = @ \o << Plain("vrm", "vort", c), Plain("resize", "vort", c) >>],
         hnu, ch, cap, c + 1)

\* the body of for (auto &coll : _vort) of the diffusion, from collection c on
RECURSIVE D_Vrm(_, _, _, _, _)
D_Vrm(d, hnu, ch, cap, c) ==
  IF c > Len(d.vort) THEN d
  ELSE IF is_inert(d.vort[c]) \/ d.vort[c].kind # "Points"
       THEN D_Vrm(d, hnu, ch, cap, c + 1)
  ELSE D_Vrm([d EXCEPT !.vort[c].pts = diffuse_all(@, hnu, ch, cap),
                       !.log = @ \o << Plain("vrm", "vort", c), Plain("resize", "vort", c) >>],
             hnu, ch, cap, c + 1)

D_Reflect(d) ==
  [d EXCEPT !.vort = reflect_interior(d.bdry, @),
            !.log = Append(@, Plain("reflect", "vort", 0))]

D_Merge(d) ==
  [d EXCEPT !.vort = merge_operation(@, merge_thresh),
            !.log = Append(@, Plain("merge", "vort", 0))]

\* elem.update_max_str() on every collection of _vort
D_UpdateMaxStr(d) ==
  [d EXCEPT !.vort = [c \in 1..Len(@) |-> [d.vort[c] EXCEPT !.max_str = MaxStrOf(d.vort[c].pts)]],
            !.log = Append(@, Plain("update_max_str", "vort", 0))]

(***************************************************************************)
(* Diffusion<S,A,I>::step(_time, _dt, _re, _vdelta, _fs, _vort, _bdry,     *)
(* _bem).  g is the freestream and ch the outcome of each parent's       *)
(* local VRM system.                                                       *)
(***************************************************************************)
\* the particles VRM may grow a collection to: what is shed afterwards must fit
VrmCap(sbd, bdry_) ==
  MaxParts - (IF ShedsAfter(sbd) THEN Len(Concat([b \in 1..Len(bdry_) |-> bdry_[b].panels]))
              ELSE 0)

\* the step with the BEM solved after the shed
DiffusionStepShedFirst(d0, inviscid, sbd, dt_, re_, vdelta, g, ch) ==
  IF inviscid THEN d0
  ELSE LET hnu == SqrtRatio(dt_, re_)
           d1 == D_Clear([d0 EXCEPT !.h_nu = hnu], "vort", FirstClearArgs(hnu))
           d2 == IF ShedsBefore(sbd)
                 THEN D_Shed(d1, "before", ShedBeforeOffset(hnu), vdelta, 1)
                 ELSE d1
           d3 == D_Bem(d2, g)
           d4 == D_Vrm(d3, hnu, ch, VrmCap(sbd, d0.bdry), 1)
           d5 == D_Reflect(d4)
           d6 == D_Merge(d5)
           d7 == D_Clear(d6, "vort", SecondClearArgs(sbd, vdelta))
           d8 == IF ShedsAfter(sbd)
                 THEN D_Shed(d7, "after", ShedAfterOffset(hnu), vdelta, 1)
                 ELSE d7
           d9 == IF Len(d8.bdry) > 0 THEN D_Merge(d8) ELSE d8
       IN D_UpdateMaxStr(d9)

\* the step with the BEM solved before the first push
DiffusionStepBemFirst(d0, inviscid, sbd, dt_, re_, vdelta, g, ch) ==
  IF inviscid THEN d0
  ELSE LET hnu == SqrtRatio(dt_, re_)
           d1 == D_Bem([d0 EXCEPT !.h_nu = hnu], g)
           d2 == D_Clear(d1, "vort", FirstClearArgs(hnu))
           d3 == IF ShedsBefore(sbd)
                 THEN D_Shed(d2, "before", ShedBeforeOffset(hnu), vdelta, 1)
                 ELSE d2
           d4 == D_Vrm(d3, hnu, ch, VrmCap(sbd, d0.bdry), 1)
           d5 == D_Reflect(d4)
           d6 == D_Merge(d5)
           d7 == D_Clear(d6, "vort", SecondClearArgs(sbd, vdelta))
           d8 == IF ShedsAfter(sbd)
                 THEN D_Shed(d7, "after", ShedAfterOffset(hnu), vdelta, 1)
                 ELSE d7
           d9 == IF Len(d8.bdry) > 0 THEN D_Merge(d8) ELSE d8
       IN D_UpdateMaxStr(d9)

\* the step with h_nu refreshed before the inviscid test
DiffusionStepHnuFirst(d0, inviscid, sbd, dt_, re_, vdelta, g, ch) ==
  LET hnu == SqrtRatio(dt_, re_)
  IN IF inviscid THEN [d0 EXCEPT !.h_nu = hnu]
     ELSE LET d1 == D_Clear([d0 EXCEPT !.h_nu = hnu], "vort", FirstClearArgs(hnu))
              d2 == D_Bem(d1, g)
              d3 == IF ShedsBefore(sbd)
                    THEN D_Shed(d2, "before", ShedBeforeOffset(hnu), vdelta, 1)
                    ELSE d2
              d4 == D_Vrm(d3, hnu, ch, VrmCap(sbd, d0.bdry), 1)
              d5 == D_Reflect(d4)
              d6 == D_Merge(d5)
              d7 == D_Clear(d6, "vort", SecondClearArgs(sbd, vdelta))
              d8 == IF ShedsAfter(sbd)
                    THEN D_Shed(d7, "after", ShedAfterOffset(hnu), vdelta, 1)
                    ELSE d7
              d9 == IF Len(d8.bdry) > 0 THEN D_Merge(d8) ELSE d8
          IN D_UpdateMaxStr(d9)

DiffusionStep(d0, inviscid, sbd, dt_, re_, vdelta, g, ch) ==
  IF inviscid THEN d0
  ELSE LET hnu == SqrtRatio(dt_, re_)
           d1 == D_Clear([d0 EXCEPT !.h_nu = hnu], "vort", FirstClearArgs(hnu))
           d2 == D_Bem(d1, g)
           d3 == IF ShedsBefore(sbd)
                 THEN D_Shed(d2, "before", ShedBeforeOffset(hnu), vdelta, 1)
                 ELSE d2
           d4 == D_Vrm(d3, hnu, ch, VrmCap(sbd, d0.bdry), 1)
           d5 == D_Reflect(d4)
           d6 == D_Merge(d5)
           d7 == D_Clear(d6, "vort", SecondClearArgs(sbd, vdelta))
           d8 == IF ShedsAfter(sbd)
                 THEN D_Shed(d7, "after", ShedAfterOffset(hnu), vdelta, 1)
                 ELSE d7
           d9 == IF Len(d8.bdry) > 0 THEN D_Merge(d8) ELSE d8
       IN D_UpdateMaxStr(d9)

(***************************************************************************)
(* State.                                                                  *)
(***************************************************************************)
VARIABLES
  \* Simulation: re, dt, fs, time, nstep, the three lists of collections, bem
  re, dt, fs, time, nstep, vort, bdry, fldpt, bem,
  \* Simulation: the stopping criteria and the flags
  end_time, use_end_time, max_steps, use_max_steps,
  sim_is_initialized, step_has_started, step_is_finished,
  \* Simulation::stepfuture: the task it refers to, 0 when not valid()
  stepfuture,
  \* Diffusion: h_nu, is_inviscid, shed_before_diffuse
  h_nu, is_inviscid, shed_before_diffuse,
  \* where each thread is inside first_step() or step(): thread 0 calls them
  \* directly, threads 1 and 2 are the tasks of std::async
  pc,
  \* the value of time or nstep a thread has read and not yet written back
  reg,
  \* the operations of the last step, in order
  oplog,
  \* the front-end thread: where it is, the task it has just launched, and
  \* the value test_for_new_results returned last
  fe, fe_task, polled,
  \* main() of the batch driver: where it is, and its exit code
  mpc, exit_code,
  \* main(): argc, the flow and boundary features parsed from the JSON file,
  \* and the error message string
  argc, ffeatures, bfeatures, sim_err_msg,
  \* Simulation::sf, the status file: whether it has a file name, and the
  \* lines written since reset_sim(); the function-static last_time and
  \* last_impulse of calculate_simple_forces
  sf, last_time, last_impulse,
  \* the routine a behaviour of SpecUnits drives
  unit,
  \* the .vtu file written last, the JSON object written last
  vtu, json,
  \* GlComputeState (cstate, nsrc, the dispatches made) and the
  \* function-static sliver_index of computeGL
  cgl, sliver_index,
  \* the last top-level call of a recursive panel kernel and what it did
  kcall

physvars == <<vort, bdry, fldpt, bem, h_nu, oplog>>

cfgvars == <<re, dt, fs, is_inviscid, shed_before_diffuse,
             end_time, use_end_time, max_steps, use_max_steps>>

clockvars == <<time, nstep>>

asyncvars == <<step_has_started, step_is_finished, stepfuture, fe, fe_task, polled>>

batchvars == <<mpc, exit_code, argc, ffeatures, bfeatures, sim_err_msg>>

statvars == <<sf, last_time, last_impulse>>

unitvars == <<unit, vtu, json, cgl, sliver_index, kcall>>

vars == <<physvars, cfgvars, clockvars, sim_is_initialized, pc, reg, asyncvars, batchvars,
          statvars, unitvars>>

Threads == 0..2

Tasks == 1..2

(***************************************************************************)
(* Inputs.                                                                 *)
(***************************************************************************)
\* what a flow feature hands to add_particles: 7-tuples (x, s, r)
ParticleBatches ==
  { <<>>,
    << [x |-> 9500, s |-> <<4, 0, 0>>, r |-> 0] >>,
    << [x |-> 12000, s |-> <<0, -4, 8>>, r |-> 7] >> }

\* what a boundary feature hands to add_boundary: the faces of closed surfaces
SlabChoices == << [lo |-> 10000, hi |-> 20000], [lo |-> 40000, hi |-> 50000],
                  [lo |-> 70000, hi |-> 80000] >>

\* what a measure feature hands to add_fldpts: positions
FldptBatches == { <<>>, <<15000>> }

\* freestreams a run may set ("Uinf")
FsSet == { <<0, 0, 0>>, <<2, 0, 0>> }

\* displacements of one convection step
ConvSet == {0, 1500}

\* elongation (in tenths) of the particle a convection step stretches
ElongSet == {16}

NParts(colls) == Len(Concat([c \in 1..Len(colls) |-> colls[c].pts]))

NPanels(colls) == Len(Concat([c \in 1..Len(colls) |-> colls[c].panels]))

(***************************************************************************)
(* Simulation::Simulation()                                                *)
(***************************************************************************)
Constructed ==
  /\ re = ReDefault /\ dt = DtDefault
  /\ fs = Zero3
  /\ time = 0 /\ nstep = 0
  /\ vort = <<>> /\ bdry = <<>> /\ fldpt = <<>>
  /\ bem = "reset"
  /\ end_time = EndTimeDefault
  /\ use_end_time = FALSE
  /\ max_steps = MaxStepsDefault /\ use_max_steps = FALSE
  /\ sim_is_initialized = FALSE
  /\ step_has_started = FALSE /\ step_is_finished = FALSE
  /\ stepfuture = 0
  /\ h_nu = HnuDefault
  /\ is_inviscid = FALSE
  /\ pc = [t \in Threads |-> "idle"]
  /\ reg = [t \in Threads |-> 0]
  /\ oplog = <<>>
  /\ sf = [active |-> FALSE, lines |-> 0]
  /\ last_time = 0
  /\ last_impulse = Zero3

(***************************************************************************)
(* Simulation::add_particles, add_fldpts, add_boundary, set_diffuse.       *)
(***************************************************************************)
\* add_particles with the radius assigned to the particles that have none
add_particles_keeping(vort_, invec, thisvd) ==
  IF Len(invec) = 0 THEN vort_
  ELSE LET batch == [i \in 1..Len(invec) |->
                       Particle(invec[i].x, invec[i].s,
                                IF invec[i].r = 0 THEN thisvd ELSE invec[i].r)]
           last == Len(vort_)
       IN IF last = 0 THEN << Points(batch, "active", "lagrangian") >>
          ELSE IF vort_[last].kind = "Points"
               THEN [vort_ EXCEPT ![last].pts = @ \o batch]
               ELSE vort_

\* add_particles making a new collection of every batch
add_particles_pushing(vort_, invec, thisvd) ==
  IF Len(invec) = 0 THEN vort_
  ELSE Append(vort_, Points([i \in 1..Len(invec) |->
                               Particle(invec[i].x, invec[i].s, thisvd)],
                            "active", "lagrangian"))

\* the collection list after add_particles(_invec)
add_particles(vort_, invec, thisvd) ==
  IF Len(invec) = 0 THEN vort_
  ELSE LET batch == [i \in 1..Len(invec) |-> Particle(invec[i].x, invec[i].s, thisvd)]
           last == Len(vort_)
       IN IF last = 0 THEN << Points(batch, "active", "lagrangian") >>
          ELSE IF vort_[last].kind = "Points"
               THEN [vort_ EXCEPT ![last].pts = @ \o batch]
               ELSE vort_

FieldPoints(invec) == [i \in 1..Len(invec) |-> Particle(invec[i], Zero3, 0)]

\* the collection list after add_fldpts(_invec, _moves)
add_fldpts(fldpt_, invec, moves) ==
  LET move_type == IF moves THEN "lagrangian" ELSE "fixed"
      matches == {c \in 1..Len(fldpt_) :
                    fldpt_[c].kind = "Points" /\ fldpt_[c].movet = "lagrangian"}
      first == CHOOSE c \in matches : \A m \in matches : c <= m
  IN IF Len(invec) = 0 THEN fldpt_
     ELSE IF Len(fldpt_) = 0
          THEN << Points(FieldPoints(invec), "inert", move_type) >>
     ELSE IF move_type = "lagrangian"
          THEN IF matches # {}
               THEN [fldpt_ EXCEPT ![first].pts = @ \o FieldPoints(invec)]
               ELSE Append(fldpt_, Points(FieldPoints(invec), "inert", move_type))
     ELSE Append(fldpt_, Points(FieldPoints(invec), "inert", move_type))

\* add_boundary making a new collection of every geometry
add_boundary_pushing(bdry_, bptr, geom) ==
  IF Len(geom) = 0 THEN bdry_
  ELSE Append(bdry_, Surfaces(geom, IF bptr # 0 THEN "bodybound" ELSE "fixed", bptr))

\* the collection list after add_boundary(_bptr, _geom): bptr is 0 for no body
add_boundary(bdry_, bptr, geom) ==
  LET this_move_type == IF bptr # 0 THEN "bodybound" ELSE "fixed"
      Match(i) == /\ bdry_[i].elemt = "reactive"
                  /\ bdry_[i].movet = this_move_type
                  /\ (this_move_type = "bodybound" => bdry_[i].body = bptr)
      matches == {i \in 1..Len(bdry_) : Match(i)}
      imatch == CHOOSE i \in matches : \A m \in matches : m <= i
  IN IF Len(geom) = 0 THEN bdry_
     ELSE IF matches = {}
          THEN Append(bdry_, Surfaces(geom, this_move_type, bptr))
     ELSE IF bdry_[imatch].kind = "Surfaces"
          THEN [bdry_ EXCEPT ![imatch].panels = @ \o geom]
          ELSE bdry_

AddParticles(invec) ==
  /\ NParts(vort) + Len(invec) <= MaxUser
  /\ vort' = add_particles(vort, invec, get_vdelta(dt, re))
  /\ UNCHANGED <<bdry, fldpt, bem, h_nu, oplog>>
  /\ UNCHANGED <<cfgvars, clockvars, sim_is_initialized, reg, pc, asyncvars, batchvars>>
  /\ UNCHANGED <<statvars, unitvars>>

AddFldpts(invec, moves) ==
  /\ NParts(fldpt) + Len(invec) <= MaxFldpts
  /\ fldpt' = add_fldpts(fldpt, invec, moves)
  /\ UNCHANGED <<vort, bdry, bem, h_nu, oplog>>
  /\ UNCHANGED <<cfgvars, clockvars, sim_is_initialized, reg, pc, asyncvars, batchvars>>
  /\ UNCHANGED <<statvars, unitvars>>

AddBoundary(bptr, k) ==
  /\ NPanels(bdry) + 2 <= 2 * MaxBodies
  /\ k = 0 \/ k = NPanels(bdry) \div 2 + 1
  /\ bdry' = add_boundary(bdry, bptr,
                          IF k = 0 THEN <<>>
                          ELSE SlabPanels(SlabChoices[k].lo, SlabChoices[k].hi))
  /\ UNCHANGED <<vort, fldpt, bem, h_nu, oplog>>
  /\ UNCHANGED <<cfgvars, clockvars, sim_is_initialized, reg, pc, asyncvars, batchvars>>
  /\ UNCHANGED <<statvars, unitvars>>

\* Simulation::set_diffuse(_do_diffuse)
SetDiffuse(do_diffuse) ==
  /\ is_inviscid' = ~do_diffuse
  /\ UNCHANGED <<re, dt, fs, shed_before_diffuse, end_time, use_end_time, max_steps,
                 use_max_steps>>
  /\ UNCHANGED <<physvars, clockvars, sim_is_initialized, reg, pc, asyncvars, batchvars>>
  /\ UNCHANGED <<statvars, unitvars>>

\* Simulation::flow_from_json: the "Uinf" entry becomes the freestream
SetFs(new_fs) ==
  /\ fs' = new_fs
  /\ UNCHANGED <<re, dt, is_inviscid, shed_before_diffuse, end_time, use_end_time,
                 max_steps, use_max_steps>>
  /\ UNCHANGED <<physvars, clockvars, sim_is_initialized, reg, pc, asyncvars, batchvars>>
  /\ UNCHANGED <<statvars, unitvars>>

(***************************************************************************)
(* Simulation::step() and first_step(), run by thread t.                   *)
(***************************************************************************)
Viscous == ~is_inviscid

\* room for what one step may shed
StepFits ==
  NParts(vort) + (IF Viscous THEN NPanels(bdry) ELSE 0) <= MaxParts

\* particles in a collection when VRM runs
VrmCount ==
  IF Viscous
  THEN NParts(vort) + (IF ShedsBefore(shed_before_diffuse) THEN NPanels(bdry) ELSE 0)
  ELSE 0

Finished(t) == IF t = 0 THEN "idle" ELSE "done"

\* what diff.step leaves in the arguments it got by reference, and in h_nu
Diffused(d) ==
  /\ vort' = d.vort
  /\ bdry' = d.bdry
  /\ bem' = d.bem
  /\ h_nu' = d.h_nu
  /\ oplog' = d.log

\* diff.step(time, dt, re, get_vdelta(), thisfs, vort, bdry, bem)
SimDiffuse(t) ==
  /\ pc[t] = "diffuse"
  /\ \E ch \in [1..MaxParts -> VrmChoices] :
       /\ \A i \in 1..MaxParts : i > VrmCount => ch[i] = "infeasible"
       /\ Diffused(DiffusionStep([vort |-> vort, bdry |-> bdry, bem |-> bem,
                                  h_nu |-> h_nu, log |-> <<>>],
                                 is_inviscid, shed_before_diffuse, dt, re,
                                 get_vdelta(dt, re), fs, ch))
  /\ pc' = [pc EXCEPT ![t] = "advect"]
  /\ UNCHANGED <<fldpt, cfgvars, clockvars, sim_is_initialized, reg, asyncvars, batchvars>>
  /\ UNCHANGED <<statvars, unitvars>>

\* a step() that leaves the particles as the convection stretched them
SplitAllSkipped(targ) == targ

SplitAll(targ) ==
  [c \in 1..Len(targ) |->
     IF targ[c].kind = "Points"
     THEN [targ[c] EXCEPT !.pts = split_elongated(@, SplitThresh)]
     ELSE targ[c]]

SplitLog(targ) ==
  Concat([c \in 1..Len(targ) |->
            IF targ[c].kind = "Points"
            THEN << Plain("split", "vort", c), Plain("resize", "vort", c) >>
            ELSE <<>>])

HasLagrangian(targ) == \E c \in 1..Len(targ) : targ[c].movet = "lagrangian"

Stretches ==
  {<<0, 10>>} \cup
  (IF NParts(vort) < MaxParts THEN (1..NParts(vort)) \X ElongSet ELSE {})

\* the test with the counter of the step just completed
IsFldptStepAfter(n) == (n + 1) % FldptPeriod = 0

\* if (nstep%5 == 0), with nstep not yet incremented
IsFldptStep(n) == n % FldptPeriod = 0

\* the field points after the push of every FldptPeriod-th step
FldptPushed(fmoved, a) ==
  IF IsFldptStep(nstep)
  THEN clear_inner_layer(a.mode, bdry, fmoved, a.mult, a.len)
  ELSE fmoved

FldptLog(fmoved, pushed, a) ==
  IF IsFldptStep(nstep)
  THEN << Entry("clear_inner", "fldpt", 0, a.mode, a.mult, a.len,
                AnyInterior(bdry, pushed), Strengths(pushed) = Strengths(fmoved)) >>
  ELSE <<>>

\* what step() leaves after the convection: moved and fmoved are the
\* particles and field points as advect_2nd moved them
Advected(moved, fmoved, a) ==
  /\ bdry' = solve_bem(bdry, fs)
  /\ bem' = "solved"
  /\ fldpt' = FldptPushed(fmoved, a)
  /\ vort' = SplitAll(moved)
  /\ oplog' = oplog \o << Plain("advect", "vort", 0) >>
                    \o FldptLog(fmoved, FldptPushed(fmoved, a), a)
                    \o SplitLog(moved)

AllPoints(colls) == Concat([c \in 1..Len(colls) |-> colls[c].pts])

\* x cross s for a position on the axis the bodies are laid out on
Moment(p) == <<0, -(p.x * p.s[3]), p.x * p.s[2]>>

RECURSIVE SumMoment(_)
SumMoment(pts) ==
  IF pts = <<>> THEN Zero3 ELSE VAdd(Moment(pts[1]), SumMoment(Tail(pts)))

\* calculate_total_impulse(): get_total_impulse() over the collections of
\* particles
TotalImpulse(colls) == SumMoment(AllPoints(colls))

\* calculate_simple_forces() at time time_ with total impulse imp: lt and li
\* are the statics last_time and last_impulse it finds; den is the
\* difference (time - last_time) it divides by, num the difference of the
\* impulses, and last_time, last_impulse are the statics it leaves.
\* "time < 0.1*dt" is 10*time < dt.
calculate_simple_forces(time_, dt_, lt, li, imp) ==
  LET fresh == 10 * time_ < dt_
      lt0 == IF fresh THEN -dt_ ELSE lt
      li0 == IF fresh THEN Zero3 ELSE li
  IN [den |-> time_ - lt0, num |-> VSub(imp, li0), last_time |-> time_,
      last_impulse |-> imp]

\* dump_stats_to_status() at time time_ with the particles vort_: a line is
\* written only to an active status file.  Its solve_bem leaves what the
\* convection of the same step has left.
DumpStats(time_, vort_) ==
  IF sf.active
  THEN LET f == calculate_simple_forces(time_, dt, last_time, last_impulse,
                                        TotalImpulse(vort_))
       IN /\ sf' = [sf EXCEPT !.lines = @ + 1]
          /\ last_time' = f.last_time
          /\ last_impulse' = f.last_impulse
  ELSE UNCHANGED statvars

\* where a thread is between the read and the write of "time += dt", and of
\* "nstep++"
ClockStages == {"time_store", "nstep_store"}

\* thread t is inside step()
InStep(t) == pc[t] \in {"diffuse", "advect"} \cup ClockStages

\* another thread is inside step() too: time and nstep are plain members, so
\* the two reads and writes of each are not one step
Racing(t) == \E u \in Threads \ {t} : InStep(u)

\* conv.advect_2nd(...), the push of the field points, the split, and the
\* advance of time and nstep
SimAdvect(t) ==
  /\ pc[t] = "advect"
  /\ \E mv \in [1..MaxParts -> ConvSet], se \in Stretches,
        fmv \in (IF HasLagrangian(fldpt) THEN ConvSet ELSE {0}) :
       /\ \A i \in 1..MaxParts : i > NParts(vort) => mv[i] = 0
       /\ Advected(advect_vort(vort, mv, se[1], se[2]), advect_fldpt(fldpt, fmv),
                   FldptClearArgs(get_ips(dt, re)))
  /\ IF Racing(t)
     THEN /\ UNCHANGED clockvars
          /\ reg' = [reg EXCEPT ![t] = time]
          /\ pc' = [pc EXCEPT ![t] = "time_store"]
          /\ UNCHANGED statvars
     ELSE /\ time' = time + dt
          /\ nstep' = nstep + 1
          /\ reg' = reg
          /\ pc' = [pc EXCEPT ![t] = Finished(t)]
          /\ DumpStats(time', vort')
  /\ UNCHANGED <<h_nu, cfgvars, sim_is_initialized, asyncvars, batchvars, unitvars>>

\* "time += (double)dt; nstep++;" of a step() that runs while another one
\* does: each statement is a read and a write.  The read of time ends
\* SimAdvect, the write of time and the read of nstep are one step, the
\* write of nstep is the last.
ClockRace(t) ==
  /\ pc[t] \in ClockStages
  /\ IF pc[t] = "time_store"
     THEN /\ time' = reg[t] + dt
          /\ reg' = [reg EXCEPT ![t] = nstep]
          /\ pc' = [pc EXCEPT ![t] = "nstep_store"]
          /\ nstep' = nstep
          /\ UNCHANGED statvars
     ELSE /\ nstep' = reg[t] + 1
          /\ reg' = [reg EXCEPT ![t] = 0]
          /\ pc' = [pc EXCEPT ![t] = Finished(t)]
          /\ time' = time
          /\ DumpStats(time, vort)
  /\ UNCHANGED <<physvars, cfgvars, sim_is_initialized, asyncvars, batchvars, unitvars>>

\* first_step(): conv.advect_1st(time, 0.0, ...) solves the BEM and moves
\* nothing, and the status line is written
SimFirstStep(t) ==
  /\ pc[t] = "first"
  /\ bdry' = solve_bem(bdry, fs)
  /\ bem' = "solved"
  /\ pc' = [pc EXCEPT ![t] = Finished(t)]
  /\ DumpStats(time, vort)
  /\ UNCHANGED <<vort, fldpt, h_nu, oplog>>
  /\ UNCHANGED <<cfgvars, clockvars, sim_is_initialized, reg, unitvars, asyncvars, batchvars>>

\* the now-reset-everything-else part of Simulation::reset()
ResetState ==
  /\ time' = 0
  /\ nstep' = 0
  /\ vort' = <<>>
  /\ bdry' = <<>>
  /\ fldpt' = <<>>
  /\ bem' = "reset"
  /\ sim_is_initialized' = FALSE
  /\ step_has_started' = FALSE
  /\ step_is_finished' = FALSE
  /\ sf' = [sf EXCEPT !.lines = 0]

(***************************************************************************)
(* Spec: one thread sets a simulation up and calls step() directly.        *)
(***************************************************************************)
NoFrontEnd == fe = "idle" /\ fe_task = 0 /\ polled = "none"

NoBatch ==
  /\ mpc = "none" /\ exit_code = 0
  /\ argc = 0 /\ ffeatures = <<>> /\ bfeatures = <<>> /\ sim_err_msg = <<>>

\* no file is written, no JSON object made, no compute shader run and no
\* panel kernel called
NoUnits ==
  /\ unit = "none"
  /\ vtu = <<>> /\ json = <<>>
  /\ cgl = [cstate |-> "no_compute", nsrc |-> 0, num_slivers |-> 1, done |-> <<>>]
  /\ sliver_index = 0
  /\ kcall = <<>>

\* Diffusion() sets shed_before_diffuse to true and nothing assigns it later;
\* the other value is the class built with the initializer changed, which is
\* what the else branches of Diffusion::step are written for
Init ==
  /\ Constructed
  /\ shed_before_diffuse \in BOOLEAN
  /\ NoFrontEnd
  /\ NoBatch
  /\ NoUnits

\* the call of step()
CallStep ==
  /\ pc[0] = "idle"
  /\ nstep < MaxSteps
  /\ StepFits
  /\ pc' = [pc EXCEPT ![0] = "diffuse"]
  /\ UNCHANGED <<physvars, cfgvars, clockvars, sim_is_initialized, reg, asyncvars, batchvars>>
  /\ UNCHANGED <<statvars, unitvars>>

Setup ==
  /\ pc[0] = "idle"
  /\ nstep = 0
  /\ \/ \E invec \in ParticleBatches : AddParticles(invec)
     \/ \E invec \in FldptBatches, moves \in BOOLEAN : AddFldpts(invec, moves)
     \/ \E bptr \in 0..1, k \in 0..Len(SlabChoices) : AddBoundary(bptr, k)
     \/ \E b \in BOOLEAN : SetDiffuse(b)
     \/ \E new_fs \in FsSet : SetFs(new_fs)

Next ==
  \/ Setup
  \/ CallStep
  \/ SimDiffuse(0)
  \/ SimAdvect(0)

Spec == Init /\ [][Next]_vars

(***************************************************************************)
(* SpecAsync: a front-end thread launches first_step() and step() as       *)
(* std::async tasks, polls them with test_for_new_results() and resets.    *)
(* The statement stepfuture = std::async(...) is two steps: the new task   *)
(* is launched, then the move assignment releases the shared state the     *)
(* future held before, which blocks until that task has completed.         *)
(***************************************************************************)
Running(t) == pc[t] = "first" \/ InStep(t)

FreeTasks == {t \in Tasks : pc[t] = "idle"}

\* the tasks after the shared state of future f is released
Released(f) == IF f # 0 THEN [pc EXCEPT ![f] = "idle"] ELSE pc

\* a poll that asks valid() alone
is_future_valid(f) == f # 0

\* is_future_ready(f): f.valid() and f.wait_for(0) == ready
is_future_ready(f) == f # 0 /\ pc[f] = "done"

\* a reset that does not wait
ResetNoWait(f) == TRUE

\* if (stepfuture.valid()) { stepfuture.wait(); stepfuture.get(); }
ResetMayProceed(f) == f = 0 \/ pc[f] = "done"

\* step tasks that have not added their step to nstep yet
StepsInFlight == Cardinality({t \in Tasks : InStep(t)})

\* async_first_step() and async_step() up to the launch of the task
AsyncLaunch(entry) ==
  /\ fe = "idle"
  /\ FreeTasks # {}
  /\ entry = "diffuse" => /\ nstep + StepsInFlight < MaxSteps
                          /\ time + StepsInFlight * dt < MaxSteps * dt
  /\ step_has_started' = TRUE
  /\ LET t == CHOOSE f \in FreeTasks : \A g \in FreeTasks : f <= g
     IN /\ pc' = [pc EXCEPT ![t] = entry]
        /\ fe_task' = t
  /\ fe' = "assign"
  /\ polled' = "none"
  /\ UNCHANGED <<physvars, cfgvars, clockvars, sim_is_initialized, reg, step_is_finished,
                 stepfuture, batchvars>>
  /\ UNCHANGED <<statvars, unitvars>>

AsyncFirstStep == AsyncLaunch("first")

AsyncStep == AsyncLaunch("diffuse")

\* the assignment to stepfuture that ends async_first_step() and async_step()
AsyncAssign ==
  /\ fe = "assign"
  /\ stepfuture = 0 \/ pc[stepfuture] = "done"
  /\ pc' = Released(stepfuture)
  /\ stepfuture' = fe_task
  /\ fe_task' = 0
  /\ fe' = "idle"
  /\ UNCHANGED <<physvars, cfgvars, clockvars, sim_is_initialized, reg, step_has_started,
                 step_is_finished, polled, batchvars>>
  /\ UNCHANGED <<statvars, unitvars>>

\* test_for_new_results(): polled is what it returns
TestForNewResults ==
  /\ fe = "idle"
  /\ IF ~step_has_started
     THEN /\ polled' = "true"
          /\ UNCHANGED <<step_has_started, step_is_finished, stepfuture, pc>>
     ELSE IF is_future_ready(stepfuture)
     THEN /\ stepfuture # 0 /\ pc[stepfuture] = "done"
          /\ pc' = Released(stepfuture)
          /\ stepfuture' = 0
          /\ step_is_finished' = TRUE
          /\ step_has_started' = FALSE
          /\ polled' = "true"
     ELSE /\ polled' = "false"
          /\ UNCHANGED <<step_has_started, step_is_finished, stepfuture, pc>>
  /\ UNCHANGED <<physvars, cfgvars, clockvars, sim_is_initialized, reg, fe, fe_task, batchvars>>
  /\ UNCHANGED <<statvars, unitvars>>

\* Simulation::reset()
Reset ==
  /\ fe = "idle"
  /\ ResetMayProceed(stepfuture)
  /\ pc' = IF ResetMayProceed(stepfuture) THEN Released(stepfuture) ELSE pc
  /\ stepfuture' = 0
  /\ ResetState
  /\ oplog' = <<>>
  /\ UNCHANGED <<h_nu, cfgvars, reg, fe, fe_task, polled, batchvars,
                 last_time, last_impulse, unitvars>>

InitAsync ==
  /\ Constructed
  /\ shed_before_diffuse = TRUE
  /\ NoFrontEnd
  /\ NoBatch
  /\ NoUnits

\* the front end sets diffusion on or off and, with diffusion off, adds
\* particles, while nothing has been started: what the tasks do to the
\* particles of a viscous flow is what Spec explores
SetupAsync ==
  /\ fe = "idle" /\ stepfuture = 0 /\ ~step_has_started /\ nstep = 0
  /\ NParts(vort) = 0
  /\ \/ \E invec \in ParticleBatches : is_inviscid /\ AddParticles(invec)
     \/ \E b \in BOOLEAN : SetDiffuse(b)

NextAsync ==
  \/ SetupAsync
  \/ AsyncFirstStep
  \/ AsyncStep
  \/ AsyncAssign
  \/ TestForNewResults
  \/ Reset
  \/ \E t \in Tasks : SimFirstStep(t)
  \/ \E t \in Tasks : SimDiffuse(t)
  \/ \E t \in Tasks : SimAdvect(t)
  \/ \E t \in Tasks : ClockRace(t)

SpecAsync == InitAsync /\ [][NextAsync]_vars

(***************************************************************************)
(* SpecBatch: main() of the batch driver.  mpc is where main is: "start",  *)
(* "init" (the JSON file is parsed), "loop" (top of the main loop),        *)
(* "stepping" (inside sim.step()), "finish" (the loop is left), "exit".    *)
(***************************************************************************)
\* "maxSteps" and "endTime" of the JSON file; -1 stands for no entry
JsonMaxSteps == {-1, 0, 1, 2}

JsonEndTime == {-1, 0, 3, 4}

\* the flow features of the JSON file: none, or one SingleParticle or
\* ParticleEmitter, enabled or not
FeatureLists ==
  { <<>> } \cup
  { << [type |-> ty, enabled |-> e] >> : ty \in {"SingleParticle", "ParticleEmitter"},
                                        e \in BOOLEAN }

\* the particle a SingleParticle or ParticleEmitter hands over, radius 0.0
FeatureParticle == [x |-> 9500, s |-> <<4, 0, 0>>, r |-> 0]

\* SingleParticle::init_particles, ParticleEmitter::init_particles
init_particles(ff) ==
  IF ff.type = "SingleParticle" /\ ff.enabled THEN << FeatureParticle >> ELSE <<>>

\* SingleParticle::step_particles, ParticleEmitter::step_particles
step_particles(ff) ==
  IF ff.type = "ParticleEmitter" /\ ff.enabled THEN << FeatureParticle >> ELSE <<>>

\* for (auto const& ff: ffeatures) sim.add_particles( ff->init_particles(...) )
RECURSIVE InitAll(_, _, _)
InitAll(vort_, ffs, vd) ==
  IF ffs = <<>> THEN vort_
  ELSE InitAll(add_particles(vort_, init_particles(ffs[1]), vd), Tail(ffs), vd)

\* for (auto const& ff : ffeatures) sim.add_particles( ff->step_particles(...) )
RECURSIVE StepAll(_, _, _)
StepAll(vort_, ffs, vd) ==
  IF ffs = <<>> THEN vort_
  ELSE StepAll(add_particles(vort_, step_particles(ffs[1]), vd), Tail(ffs), vd)

\* the boundary features of the JSON file: none, or one body; npanels is the
\* number of triangles the body is made of, of which the model keeps the two
\* faces of its slab
BodyLists == { <<>> } \cup { << [slab |-> 1, npanels |-> n] >> : n \in {21000, 21001} }

\* for (auto const& bf : bfeatures) sim.add_boundary( bf->get_body(), bf->init_elements(...) )
RECURSIVE BoundaryAll(_, _)
BoundaryAll(bdry_, bfs) ==
  IF bfs = <<>> THEN bdry_
  ELSE BoundaryAll(add_boundary(bdry_, 0, SlabPanels(SlabChoices[bfs[1].slab].lo,
                                                     SlabChoices[bfs[1].slab].hi)),
                   Tail(bfs))

\* get_npanels(): the triangles of all bodies
RECURSIVE get_npanels(_)
get_npanels(bfs) ==
  IF bfs = <<>> THEN 0 ELSE bfs[1].npanels + get_npanels(Tail(bfs))

\* check_initialization(): the messages appended to retstr
MaxPanelsBem == 21000

ElongLimit == 15

do_any_bodies_move(bdry_) == \E b \in 1..Len(bdry_) : bdry_[b].movet = "bodybound"

MaxElong(vort_) ==
  LET pts == Concat([c \in 1..Len(vort_) |-> vort_[c].pts])
  IN IF pts = <<>> THEN 0
     ELSE CHOOSE e \in {pts[i].elong : i \in 1..Len(pts)} :
            \A i \in 1..Len(pts) : pts[i].elong <= e

check_initialization(npanels, vort_, bdry_, fs_, diffuse) ==
  LET nparts == NParts(vort_)
      zero_freestream == fs_[1] * fs_[1] + fs_[2] * fs_[2] = 0
      no_body_movement == ~do_any_bodies_move(bdry_)
      nothing == IF npanels = 0 /\ nparts = 0 THEN << "no_features" >> ELSE <<>>
      rest == (IF npanels > MaxPanelsBem THEN << "too_many_panels" >> ELSE <<>>)
              \o (IF MaxElong(vort_) > ElongLimit THEN << "elongation" >> ELSE <<>>)
  IN IF npanels > 0 /\ nparts = 0
     THEN IF zero_freestream /\ no_body_movement
          THEN nothing \o << "no_flow" >>
          ELSE nothing \o (IF ~diffuse THEN << "no_diffusion" >> ELSE <<>>) \o rest
     ELSE nothing \o rest

\* Simulation::test_vs_stop(): 2*time + dt is twice time + 0.5*dt
test_vs_stop ==
  \/ use_max_steps /\ max_steps = nstep
  \/ use_end_time /\ 2 * end_time <= 2 * time + dt

\* Simulation::test_vs_stop_async(): the test made while the last step is
\* still running; twice the window [time + 0.5*dt, time + 1.5*dt]
test_vs_stop_async ==
  \/ use_max_steps /\ max_steps = nstep + 1
  \/ use_end_time /\ 2 * end_time >= 2 * time + dt /\ 2 * end_time <= 2 * time + 3 * dt

\* a check_simulation() that reports a problem
check_simulation_reporting == << "blow_up" >>

\* check_simulation(): nothing is looked at, the message is always empty
check_simulation == <<>>

InitBatch ==
  /\ Constructed
  /\ shed_before_diffuse = TRUE
  /\ NoFrontEnd
  /\ mpc = "start" /\ exit_code = 0
  /\ argc \in {1, 2, 3}
  /\ ffeatures = <<>> /\ bfeatures = <<>> /\ sim_err_msg = <<>>
  /\ NoUnits

\* argc != 2: the usage message
BatchUsage ==
  /\ mpc = "start"
  /\ argc # 2
  /\ exit_code' = -1
  /\ mpc' = "exit"
  /\ UNCHANGED <<physvars, cfgvars, clockvars, sim_is_initialized, reg, pc, asyncvars>>
  /\ UNCHANGED <<statvars, unitvars>>
  /\ UNCHANGED <<argc, ffeatures, bfeatures, sim_err_msg>>

\* read_json and parse_json: Simulation::from_json and the feature lists
BatchParse(new_fs, ms, et, ffs, bfs) ==
  /\ mpc = "start"
  /\ argc = 2
  /\ fs' = new_fs
  /\ use_max_steps' = (ms # -1)
  /\ max_steps' = IF ms # -1 THEN ms ELSE max_steps
  /\ use_end_time' = (et # -1)
  /\ end_time' = IF et # -1 THEN et ELSE end_time
  /\ ffeatures' = ffs
  /\ bfeatures' = bfs
  /\ mpc' = "init"
  /\ UNCHANGED <<re, dt, is_inviscid, shed_before_diffuse, exit_code, argc, sim_err_msg>>
  /\ UNCHANGED <<physvars, clockvars, sim_is_initialized, reg, statvars, unitvars, pc, asyncvars>>

\* the features are initialized, then set_initialized() and
\* check_initialization()
BatchInit(mf) ==
  /\ mpc = "init"
  /\ vort' = InitAll(vort, ffeatures, get_vdelta(dt, re))
  /\ bdry' = BoundaryAll(bdry, bfeatures)
  /\ fldpt' = add_fldpts(fldpt, mf, FALSE)
  /\ sim_is_initialized' = TRUE
  /\ sim_err_msg' = check_initialization(get_npanels(bfeatures), vort', bdry', fs,
                                         ~is_inviscid)
  /\ IF sim_err_msg' # <<>>
     THEN exit_code' = 1 /\ mpc' = "exit"
     ELSE exit_code' = exit_code /\ mpc' = "loop"
  /\ UNCHANGED <<bem, h_nu, oplog, cfgvars, clockvars, pc, reg, statvars, unitvars, asyncvars>>
  /\ UNCHANGED <<argc, ffeatures, bfeatures>>

\* the top of the main loop: check_simulation(), then either the emitters
\* add their particles and sim.step() is entered, or the loop is left
BatchStep ==
  /\ mpc = "loop"
  /\ nstep < MaxSteps
  /\ sim_err_msg' = check_simulation
  /\ IF sim_err_msg' = <<>>
     THEN /\ vort' = StepAll(vort, ffeatures, get_vdelta(dt, re))
          /\ NParts(vort') <= MaxUser
          /\ NParts(vort') + NPanels(bdry) <= MaxParts
          /\ pc' = [pc EXCEPT ![0] = "diffuse"]
          /\ mpc' = "stepping"
     ELSE /\ mpc' = "finish"
          /\ UNCHANGED <<vort, pc>>
  /\ UNCHANGED <<bdry, fldpt, bem, h_nu, oplog, cfgvars, clockvars, sim_is_initialized,
                 reg, statvars, unitvars, asyncvars, exit_code, argc, ffeatures, bfeatures>>

\* if (sim.test_vs_stop()) break;
BatchTest ==
  /\ mpc = "stepping" /\ pc[0] = "idle"
  /\ mpc' = IF test_vs_stop THEN "finish" ELSE "loop"
  /\ UNCHANGED <<physvars, cfgvars, clockvars, sim_is_initialized, reg, pc, asyncvars, exit_code>>
  /\ UNCHANGED <<statvars, unitvars>>
  /\ UNCHANGED <<argc, ffeatures, bfeatures, sim_err_msg>>

\* sim.reset(); return 0;
BatchFinish ==
  /\ mpc = "finish"
  /\ ResetState
  /\ exit_code' = 0
  /\ mpc' = "exit"
  /\ UNCHANGED <<h_nu, oplog, cfgvars, pc, reg, stepfuture, fe, fe_task, polled,
                 last_time, last_impulse, unitvars>>
  /\ UNCHANGED <<argc, ffeatures, bfeatures, sim_err_msg>>

NextBatch ==
  \/ BatchUsage
  \/ \E new_fs \in FsSet \cup {<<0, 0, 2>>}, ms \in JsonMaxSteps, et \in JsonEndTime,
        ffs \in FeatureLists, bfs \in BodyLists : BatchParse(new_fs, ms, et, ffs, bfs)
  \/ \E mf \in FldptBatches : BatchInit(mf)
  \/ BatchStep
  \/ SimDiffuse(0)
  \/ SimAdvect(0)
  \/ BatchTest
  \/ BatchFinish

SpecBatch == InitBatch /\ [][NextBatch]_vars

(***************************************************************************)
(* SpecLong: one thread runs a simulation with diffusion off for more      *)
(* than FldptPeriod steps, so that the steps between two pushes of the     *)
(* field points, and the second push, happen.                              *)
(***************************************************************************)
MaxLongSteps == 6

SetupLong ==
  /\ pc[0] = "idle"
  /\ nstep = 0
  /\ \/ \E invec \in ParticleBatches : NParts(vort) = 0 /\ AddParticles(invec)
     \/ \E invec \in FldptBatches, moves \in BOOLEAN : AddFldpts(invec, moves)
     \/ \E bptr \in 0..1, k \in 0..Len(SlabChoices) : AddBoundary(bptr, k)
     \/ \E b \in BOOLEAN : SetDiffuse(b)

\* the call of step(), diffusion off
CallStepLong ==
  /\ pc[0] = "idle"
  /\ is_inviscid
  /\ nstep < MaxLongSteps
  /\ pc' = [pc EXCEPT ![0] = "diffuse"]
  /\ UNCHANGED <<physvars, cfgvars, clockvars, sim_is_initialized, reg, asyncvars, batchvars>>
  /\ UNCHANGED <<statvars, unitvars>>

NextLong ==
  \/ SetupLong
  \/ CallStepLong
  \/ SimDiffuse(0)
  \/ SimAdvect(0)

SpecLong == InitAsync /\ [][NextLong]_vars

(***************************************************************************)
(* SpecOps: the shed, Reflect and Merge as Diffusion::step calls them,      *)
(* applied to particle sets and closed surfaces drawn from small sets:     *)
(* particles within merging distance of each other with parallel, opposite *)
(* and skew strengths, inside and outside bodies that stand apart or       *)
(* close, the surfaces fixed or bound to one of two bodies.                *)
(***************************************************************************)
MaxOps == 2

OpsBatches ==
  { << [x |-> x, s |-> s, r |-> 0] >> :
      x \in {9000, 9400, 12000, 19000},
      s \in { <<4, 0, 0>>, <<-4, 0, 0>>, <<0, -4, 8>> } }

OpsSlabs == << [lo |-> 10000, hi |-> 20000], [lo |-> 20500, hi |-> 30000],
               [lo |-> 40000, hi |-> 50000] >>

\* add_boundary(bptr, geom) with the next of OpsSlabs, or with the empty
\* geometry of a disabled boundary feature; bptr is 0 for no body
OpsAddBoundary(bptr, enabled) ==
  /\ NPanels(bdry) < 2 * Len(OpsSlabs)
  /\ LET k == NPanels(bdry) \div 2 + 1
     IN bdry' = add_boundary(bdry, bptr,
                             IF enabled THEN SlabPanels(OpsSlabs[k].lo, OpsSlabs[k].hi)
                             ELSE <<>>)
  /\ UNCHANGED <<vort, fldpt, bem, h_nu, oplog>>
  /\ UNCHANGED <<cfgvars, clockvars, sim_is_initialized, reg, pc, asyncvars, batchvars>>
  /\ UNCHANGED <<statvars, unitvars>>

\* the features are added before anything is applied to them, in a first
\* run or after a reset
SetupOps ==
  /\ \A i \in 1..Len(oplog) : oplog[i].op = "reset"
  /\ \/ \E invec \in OpsBatches : AddParticles(invec)
     \/ \E bptr \in 0..2, enabled \in BOOLEAN : OpsAddBoundary(bptr, enabled)

\* what a call of Diffusion::step on the particles leaves
OpApplied(d) ==
  /\ vort' = d.vort
  /\ oplog' = d.log
  /\ UNCHANGED <<bdry, fldpt, bem, h_nu>>
  /\ UNCHANGED <<cfgvars, clockvars, sim_is_initialized, reg, pc, asyncvars, batchvars>>
  /\ UNCHANGED <<statvars, unitvars>>

\* (void) reflect_interior<S>(_bdry, _vort);
ReflectPass ==
  /\ Len(oplog) < MaxOps
  /\ OpApplied(D_Reflect([vort |-> vort, bdry |-> bdry, bem |-> bem, h_nu |-> h_nu,
                          log |-> oplog]))

\* (void) merge_operation<S>(_vort, particle_overlap, merge_thresh, adaptive_radii);
MergePass ==
  /\ Len(oplog) < MaxOps
  /\ OpApplied(D_Merge([vort |-> vort, bdry |-> bdry, bem |-> bem, h_nu |-> h_nu,
                        log |-> oplog]))

\* the shed of Diffusion::step: every Surfaces collection of bdry hands its
\* particles to vort
ShedPass ==
  /\ Len(oplog) < MaxOps
  /\ OpApplied(D_Shed([vort |-> vort, bdry |-> bdry, bem |-> bem, h_nu |-> h_nu,
                       log |-> oplog],
                      "before", ShedBeforeOffset(h_nu), get_vdelta(dt, re), 1))

\* reset() with no step running; the record starts again with the reset
OpsReset ==
  /\ oplog # <<>>
  /\ oplog[Len(oplog)].op # "reset"
  /\ ResetState
  /\ oplog' = << Plain("reset", "vort", 0) >>
  /\ UNCHANGED <<h_nu, cfgvars, pc, reg, stepfuture, fe, fe_task, polled, batchvars,
                 last_time, last_impulse, unitvars>>

NextOps ==
  \/ SetupOps
  \/ ShedPass
  \/ ReflectPass
  \/ MergePass
  \/ OpsReset

SpecOps == InitAsync /\ [][NextOps]_vars

(***************************************************************************)
(* SpecRuns: one thread makes runs of an inviscid simulation with the      *)
(* status file active: it sets the time step and adds particles, calls     *)
(* first_step() or goes straight to step(), and resets between runs.       *)
(***************************************************************************)
\* set_status_file_name(fn)
SetStatusFileName ==
  /\ ~sf.active
  /\ sf' = [sf EXCEPT !.active = TRUE]
  /\ UNCHANGED <<physvars, cfgvars, clockvars, sim_is_initialized, reg, pc, asyncvars,
                 batchvars, last_time, last_impulse, unitvars>>

\* the time step written through addr_dt(), in ticks
SetDt(new_dt) ==
  /\ dt' = new_dt
  /\ UNCHANGED <<re, fs, is_inviscid, shed_before_diffuse, end_time, use_end_time,
                 max_steps, use_max_steps>>
  /\ UNCHANGED <<physvars, clockvars, sim_is_initialized, reg, pc, asyncvars, batchvars>>
  /\ UNCHANGED <<statvars, unitvars>>

\* what is done before a run starts
SetupRuns ==
  /\ pc[0] = "idle" /\ nstep = 0 /\ bem = "reset"
  /\ \/ SetStatusFileName
     \/ SetDiffuse(FALSE)
     \/ \E new_dt \in {DtDefault, 2 * DtDefault} : SetDt(new_dt)
     \/ \E invec \in ParticleBatches : NParts(vort) = 0 /\ AddParticles(invec)

\* the call of first_step() that starts a run
CallFirstStep ==
  /\ pc[0] = "idle" /\ nstep = 0
  /\ sf.active /\ sf.lines = 0
  /\ pc' = [pc EXCEPT ![0] = "first"]
  /\ UNCHANGED <<physvars, cfgvars, clockvars, sim_is_initialized, reg, asyncvars, batchvars>>
  /\ UNCHANGED <<statvars, unitvars>>

\* the call of step()
CallStepRuns ==
  /\ pc[0] = "idle" /\ nstep < MaxSteps
  /\ sf.active /\ is_inviscid
  /\ pc' = [pc EXCEPT ![0] = "diffuse"]
  /\ UNCHANGED <<physvars, cfgvars, clockvars, sim_is_initialized, reg, asyncvars, batchvars>>
  /\ UNCHANGED <<statvars, unitvars>>

\* reset() after a run
ResetRuns ==
  /\ pc[0] = "idle" /\ nstep > 0
  /\ ResetState
  /\ oplog' = <<>>
  /\ UNCHANGED <<h_nu, cfgvars, pc, reg, stepfuture, fe, fe_task, polled, batchvars,
                 last_time, last_impulse, unitvars>>

NextRuns ==
  \/ SetupRuns
  \/ CallFirstStep
  \/ CallStepRuns
  \/ SimFirstStep(0)
  \/ SimDiffuse(0)
  \/ SimAdvect(0)
  \/ ResetRuns

SpecRuns == InitAsync /\ [][NextRuns]_vars

(***************************************************************************)
(* VtkXmlHelper.h: the index arrays of the Cells element of a .vtu file.   *)
(* A file is a record of the writer, the number of nodes n and of cells    *)
(* and the type attribute the writer chose; the value written at a place   *)
(* of an array is computed as the writer computes it.                      *)
(***************************************************************************)
\* std::numeric_limits<uint16_t>::max()
UInt16Max == 65535

\* the conversion of a value to uint16_t
ToUInt16(x) == x % (UInt16Max + 1)

\* the type attribute of connectivity and of offsets: both writers choose it
\* by the number of nodes get_n()
IndexType(n) == IF n <= UInt16Max THEN "UInt16" ELSE "UInt32"

\* the number of nodes and the number of panels of the surfaces written:
\* one triangle, closed triangulated surfaces (2n - 4 panels on n nodes) and
\* a surface with more nodes than uint16_t counts
VtuSurfaces == {<<3, 1>>, <<10924, 21844>>, <<10925, 21846>>,
                <<32770, 65536>>, <<65536, 131068>>}

\* the numbers of points written
VtuPoints == {1, 21846, 65535, 65536}

\* write_vtu_points: one cell per point
write_vtu_points(n) ==
  [writer |-> "points", n |-> n, ncells |-> n, type |-> IndexType(n)]

\* write_vtu_panels: one cell per panel, three nodes each
write_vtu_panels(n, npanels) ==
  [writer |-> "panels", n |-> n, ncells |-> npanels, type |-> IndexType(n)]

\* the i-th value (from 1) of the offsets array as written: iota from 1 in
\* the element type, and for panels times 3 in the element type
OffsetsWritten(f, i) ==
  IF f.writer = "points"
  THEN IF f.type = "UInt16" THEN ToUInt16(i) ELSE i
  ELSE IF f.type = "UInt16" THEN ToUInt16(3 * ToUInt16(i)) ELSE 3 * i

\* the end of the i-th cell in the connectivity array, which offsets is to hold
OffsetsMeant(f, i) == IF f.writer = "points" THEN i ELSE 3 * i

\* the largest value of the connectivity array as written: point i is cell i
\* (iota from 0), and a panel names nodes below n, the last node among them
ConnectivityWritten(f) ==
  IF f.type = "UInt16" THEN ToUInt16(f.n - 1) ELSE f.n - 1

WriteVtuPoints ==
  /\ unit = "vtu" /\ vtu = <<>>
  /\ \E n \in VtuPoints : vtu' = << write_vtu_points(n) >>
  /\ UNCHANGED <<physvars, cfgvars, clockvars, sim_is_initialized, reg, pc, asyncvars,
                 batchvars, statvars, unit, json, cgl, sliver_index, kcall>>

WriteVtuPanels ==
  /\ unit = "vtu" /\ vtu = <<>>
  /\ \E s \in VtuSurfaces : vtu' = << write_vtu_panels(s[1], s[2]) >>
  /\ UNCHANGED <<physvars, cfgvars, clockvars, sim_is_initialized, reg, pc, asyncvars,
                 batchvars, statvars, unit, json, cgl, sliver_index, kcall>>

(***************************************************************************)
(* FlowFeature.cpp: the six flow features and their JSON objects.  A       *)
(* feature is its class, m_enabled and its members; a JSON object is a     *)
(* function from its keys to their values, an array of three numbers being *)
(* a tuple.                                                                *)
(***************************************************************************)
FeatureClasses == {"SingleParticle", "VortexBlob", "BlockOfRandom", "ParticleEmitter",
                   "SingularRing", "ThickRing"}

\* the "type" string to_json writes and parse_flow_json dispatches on
TypeName(c) ==
  CASE c = "SingleParticle" -> "single particle"
    [] c = "VortexBlob" -> "vortex blob"
    [] c = "BlockOfRandom" -> "block of random"
    [] c = "ParticleEmitter" -> "particle emitter"
    [] c = "SingularRing" -> "singular ring"
    [] c = "ThickRing" -> "thick ring"

Vec(key, m1, m2, m3) == [key |-> key, mems |-> <<m1, m2, m3>>]
Num(key, m) == [key |-> key, mems |-> <<m>>]

\* the keys to_json writes, each with the members it takes the value from
WrittenKeys(c) ==
  CASE c = "SingleParticle" ->
         << Vec("center", "m_x", "m_y", "m_z"), Vec("strength", "m_sx", "m_sy", "m_sz") >>
    [] c = "VortexBlob" ->
         << Vec("center", "m_x", "m_y", "m_z"), Num("radius", "m_rad"),
            Num("softness", "m_softness"), Vec("strength", "m_sx", "m_sy", "m_sz") >>
    [] c = "BlockOfRandom" ->
         << Vec("center", "m_x", "m_y", "m_z"), Vec("size", "m_xsize", "m_ysize", "m_zsize"),
            Num("max strength", "m_maxstr"), Num("num", "m_num") >>
    [] c = "ParticleEmitter" ->
         << Vec("center", "m_x", "m_y", "m_z"), Vec("strength", "m_sx", "m_sy", "m_sz") >>
    [] c = "SingularRing" ->
         << Vec("center", "m_x", "m_y", "m_z"), Vec("normal", "m_nx", "m_ny", "m_nz"),
            Num("major radius", "m_majrad"), Num("circulation", "m_circ") >>
    [] c = "ThickRing" ->
         << Vec("center", "m_x", "m_y", "m_z"), Vec("normal", "m_nx", "m_ny", "m_nz"),
            Num("major radius", "m_majrad"), Num("minor radius", "m_minrad"),
            Num("circulation", "m_circ") >>

\* the keys from_json reads, each with the members it assigns
ReadKeys(c) ==
  CASE c = "SingleParticle" ->
         << Vec("center", "m_x", "m_y", "m_z"), Vec("strength", "m_sx", "m_sy", "m_sz") >>
    [] c = "VortexBlob" ->
         << Vec("center", "m_x", "m_y", "m_z"), Vec("strength", "m_sx", "m_sy", "m_sz"),
            Num("rad", "m_rad"), Num("softness", "m_softness") >>
    [] c = "BlockOfRandom" ->
         << Vec("center", "m_x", "m_y", "m_z"), Vec("size", "m_xsize", "m_ysize", "m_zsize"),
            Num("max strength", "m_maxstr"), Num("num", "m_num") >>
    [] c = "ParticleEmitter" ->
         << Vec("center", "m_x", "m_y", "m_z"), Vec("strength", "m_sx", "m_sy", "m_sz") >>
    [] c = "SingularRing" ->
         << Vec("center", "m_x", "m_y", "m_z"), Vec("normal", "m_nx", "m_ny", "m_nz"),
            Num("major radius", "m_majrad"), Num("circulation", "m_circ") >>
    [] c = "ThickRing" ->
         << Vec("center", "m_x", "m_y", "m_z"), Vec("normal", "m_nx", "m_ny", "m_nz"),
            Num("major radius", "m_majrad"), Num("minor radius", "m_minrad"),
            Num("circulation", "m_circ") >>

KeysOf(table) == {table[i].key : i \in 1..Len(table)}
MembersOf(table) == UNION {{table[i].mems[k] : k \in 1..Len(table[i].mems)} : i \in 1..Len(table)}
EntryOf(table, key) == table[CHOOSE i \in 1..Len(table) : table[i].key = key]

\* the entry of the table and the place in it that hold member m
PlaceOf(table, m) ==
  CHOOSE p \in {<<i, k>> : i \in 1..Len(table), k \in 1..3} :
    p[2] <= Len(table[p[1]].mems) /\ table[p[1]].mems[p[2]] = m

\* X::to_json
to_json(f) ==
  LET table == WrittenKeys(f.class)
  IN [key \in KeysOf(table) \cup {"type", "enabled"} |->
        IF key = "type" THEN TypeName(f.class)
        ELSE IF key = "enabled" THEN f.m_enabled
        ELSE LET e == EntryOf(table, key)
             IN IF Len(e.mems) = 1 THEN f.mem[e.mems[1]]
                ELSE <<f.mem[e.mems[1]], f.mem[e.mems[2]], f.mem[e.mems[3]]>>]

\* X::from_json on the object j: j["key"] on a const object is the value of
\* the key when the object has it and is undefined when it has not, in which
\* case the member takes any value, garbage; j.value("enabled", true)
from_json(c, j, garbage) ==
  LET table == ReadKeys(c)
  IN [class |-> c,
      m_enabled |-> IF "enabled" \in DOMAIN j THEN j["enabled"] ELSE TRUE,
      mem |-> [m \in MembersOf(table) |->
                 LET p == PlaceOf(table, m)
                     e == table[p[1]]
                 IN IF e.key \notin DOMAIN j THEN garbage
                    ELSE IF Len(e.mems) = 1 THEN j[e.key] ELSE j[e.key][p[2]]]]

\* from_json reads a key the object does not have
ReadsMissingKey(c, j) == \E key \in KeysOf(ReadKeys(c)) : key \notin DOMAIN j

\* the values a member of a feature takes here
MemberValues == {1, 2}

\* the features written: every class, enabled or not, the first member of
\* the centre and the radii of one value and the other members of another
Features ==
  {[class |-> c, m_enabled |-> b,
    mem |-> [m \in MembersOf(WrittenKeys(c)) |-> IF m \in {"m_x", "m_rad", "m_majrad"} THEN v ELSE w]] :
     c \in FeatureClasses, b \in BOOLEAN, v \in MemberValues, w \in MemberValues}

\* a feature is made, as the GUI or an earlier read makes it
MakeFeature ==
  /\ unit = "json" /\ json = <<>>
  /\ \E f \in Features : json' = << [stage |-> "made", feature |-> f] >>
  /\ UNCHANGED <<physvars, cfgvars, clockvars, sim_is_initialized, reg, pc, asyncvars,
                 batchvars, statvars, unit, vtu, cgl, sliver_index, kcall>>

\* the feature is written with to_json
WriteJson ==
  /\ unit = "json" /\ json # <<>> /\ json[1].stage = "made"
  /\ json' = << [stage |-> "written", feature |-> json[1].feature,
                 j |-> to_json(json[1].feature)] >>
  /\ UNCHANGED <<physvars, cfgvars, clockvars, sim_is_initialized, reg, pc, asyncvars,
                 batchvars, statvars, unit, vtu, cgl, sliver_index, kcall>>

\* parse_flow_json(_flist, _jin) on the object written, with an empty list:
\* it appends an object of the class the "type" names and hands the JSON
\* object to its from_json
parse_flow_json ==
  /\ unit = "json" /\ json # <<>> /\ json[1].stage = "written"
  /\ LET j == json[1].j
         c == CHOOSE c \in FeatureClasses : TypeName(c) = j["type"]
     IN \E garbage \in MemberValues \cup {0} :
          /\ (~ReadsMissingKey(c, j)) => garbage = 0
          /\ json' = << [stage |-> "parsed", feature |-> json[1].feature, j |-> j,
                         flist |-> << from_json(c, j, garbage) >>] >>
  /\ UNCHANGED <<physvars, cfgvars, clockvars, sim_is_initialized, reg, pc, asyncvars,
                 batchvars, statvars, unit, vtu, cgl, sliver_index, kcall>>

(***************************************************************************)
(* Simulation::computeGL: the compute shader is run in slivers over the    *)
(* sources, one sliver in each call.  GLuint is 32 bits wide; the counts   *)
(* here are small, so a sum or a product never reaches 2^32, and the one   *)
(* thing that can wrap is a difference a - b with a < b, which is then a   *)
(* value above every count here.                                           *)
(***************************************************************************)
\* the sources of a work group (local size of the shader)
GroupSize == 128

\* std::min(x, a - b) in GLuint: a - b wraps to 2^32 - (b - a) when a < b
MinWithDifference(x, a, b) == IF a >= b THEN Min2(x, a - b) ELSE x

\* what one call in state computing finds for sliver si: the offset and the
\* count it hands to the shader, and whether a difference wrapped
Sliver(nsrc, num_slivers, si) ==
  LET total_src_grps == (nsrc + GroupSize - 1) \div GroupSize
      groups_per_sliver == (total_src_grps + num_slivers - 1) \div num_slivers
      group_offset == si * groups_per_sliver
      src_offset == GroupSize * group_offset
      group_count == MinWithDifference(groups_per_sliver, total_src_grps, group_offset)
      src_count == MinWithDifference(GroupSize * group_count, nsrc, src_offset)
  IN [src_offset |-> src_offset, src_count |-> src_count,
      wrapped |-> (total_src_grps < group_offset \/ nsrc < src_offset)]

\* the numbers of sources and of slivers of a computation; the number of
\* slivers grows with the product of the targets and the sources
GlSources == {1, 128, 129, 500, 600, 640}
MaxSlivers == 4

\* the other thread asks for a computation: it fills the arrays and stores
\* begin_compute
RequestCompute ==
  /\ unit = "gl" /\ cgl.cstate = "no_compute" /\ cgl.done = <<>>
  /\ \E nsrc \in GlSources, num_slivers \in 1..MaxSlivers :
       cgl' = [cstate |-> "begin_compute", nsrc |-> nsrc, num_slivers |-> num_slivers,
               done |-> <<>>]
  /\ UNCHANGED <<physvars, cfgvars, clockvars, sim_is_initialized, reg, pc, asyncvars,
                 batchvars, statvars, unit, vtu, json, sliver_index, kcall>>

\* one call of computeGL(): begin_compute goes on to computing in the same
\* call, one sliver is dispatched, and after the last one compute_done is
\* stored and, in the same call, the results are taken and no_compute stored
computeGL ==
  /\ unit = "gl" /\ cgl.cstate # "no_compute"
  /\ LET s == Sliver(cgl.nsrc, cgl.num_slivers, sliver_index)
         last == sliver_index + 1 = cgl.num_slivers
     IN /\ cgl' = [cgl EXCEPT !.cstate = IF last THEN "no_compute" ELSE "computing",
                              !.done = Append(@, [src_offset |-> s.src_offset,
                                                  src_count |-> s.src_count,
                                                  wrapped |-> s.wrapped,
                                                  compute_done |-> last])]
        /\ sliver_index' = IF last THEN 0 ELSE sliver_index + 1
  /\ UNCHANGED <<physvars, cfgvars, clockvars, sim_is_initialized, reg, pc, asyncvars,
                 batchvars, statvars, unit, vtu, json, kcall>>

(***************************************************************************)
(* Kernels.h: the panel kernels that split a panel into four and call      *)
(* themselves on the parts.  Panels lie in the plane z = 0; a node is      *)
(* <<x, y>> in units fine enough for every midpoint to be a whole number,  *)
(* and distances are compared by their squares, three times the            *)
(* centroids taking the place of the centroids.  A kernel returns the      *)
(* number of point kernels it ran and the deepest lev of a call.           *)
(***************************************************************************)
\* the largest maxlev of a call here
MaxLev == 2

RECURSIVE Pow(_, _)
Pow(b, e) == IF e = 0 THEN 1 ELSE b * Pow(b, e - 1)

\* the six nodes scx[6], scy[6] of a panel split in four
SubNodes(p) ==
  LET Mid(a, b) == <<(a[1] + b[1]) \div 2, (a[2] + b[2]) \div 2>>
  IN << p[1], Mid(p[1], p[2]), p[2], Mid(p[1], p[3]), Mid(p[2], p[3]), p[3] >>

\* id[4][3], the nodes of the four parts, counted from 1
SubPanelNodes == << <<1, 2, 4>>, <<2, 3, 5>>, <<2, 5, 4>>, <<4, 5, 6>> >>

\* the i-th part of panel p
SubPanel(p, i) ==
  << SubNodes(p)[SubPanelNodes[i][1]], SubNodes(p)[SubPanelNodes[i][2]],
     SubNodes(p)[SubPanelNodes[i][3]] >>

\* three times the centroid of a panel
Centroid3(p) == << p[1][1] + p[2][1] + p[3][1], p[1][2] + p[2][2] + p[3][2] >>

\* nine times the square of the distance between two centroids, each given
\* times three
Dist9(s3, t3) == (t3[1] - s3[1]) * (t3[1] - s3[1]) + (t3[2] - s3[2]) * (t3[2] - s3[2])

\* dist > trisize*4 with trisize = sqrt(sa), the target a point
WellSeparated(s, t, sa) == Dist9(Centroid3(s), <<3 * t[1], 3 * t[2]>>) > 144 * sa

\* dist > trisize*4 with trisize = sqrt(sa) + sqrt(ta), the target a panel;
\* sa * ta is a square in every call here
WellSeparated2(s, t, sa, ta) ==
  Dist9(Centroid3(s), Centroid3(t)) > 144 * (sa + ta + 2 * Sqrt(sa * ta))

\* what a call returns from what the four calls it made returned
Gathered(parts) ==
  [leaves |-> parts[1].leaves + parts[2].leaves + parts[3].leaves + parts[4].leaves,
   deepest |-> Max2(Max2(parts[1].deepest, parts[2].deepest),
                    Max2(parts[3].deepest, parts[4].deepest))]

\* rkernel_2vs_0p with the recursion ending one level later
RECURSIVE rkernel_2vs_0p_deeper(_, _, _, _, _)
rkernel_2vs_0p_deeper(s, t, sa, lev, maxlev) ==
  IF WellSeparated(s, t, sa) \/ lev = maxlev + 1
  THEN [leaves |-> 1, deepest |-> lev]
  ELSE Gathered(<< rkernel_2vs_0p_deeper(SubPanel(s, 1), t, sa \div 4, lev + 1, maxlev),
                   rkernel_2vs_0p_deeper(SubPanel(s, 2), t, sa \div 4, lev + 1, maxlev),
                   rkernel_2vs_0p_deeper(SubPanel(s, 3), t, sa \div 4, lev + 1, maxlev),
                   rkernel_2vs_0p_deeper(SubPanel(s, 4), t, sa \div 4, lev + 1, maxlev) >>)

\* rkernel_2vs_0p: panel s of area sa on the point t
RECURSIVE rkernel_2vs_0p(_, _, _, _, _)
rkernel_2vs_0p(s, t, sa, lev, maxlev) ==
  IF WellSeparated(s, t, sa) \/ lev = maxlev
  THEN [leaves |-> 1, deepest |-> lev]
  ELSE Gathered(<< rkernel_2vs_0p(SubPanel(s, 1), t, sa \div 4, lev + 1, maxlev),
                   rkernel_2vs_0p(SubPanel(s, 2), t, sa \div 4, lev + 1, maxlev),
                   rkernel_2vs_0p(SubPanel(s, 3), t, sa \div 4, lev + 1, maxlev),
                   rkernel_2vs_0p(SubPanel(s, 4), t, sa \div 4, lev + 1, maxlev) >>)

\* rkernel_2vs_0pg: the same with the velocity gradients
RECURSIVE rkernel_2vs_0pg(_, _, _, _, _)
rkernel_2vs_0pg(s, t, sa, lev, maxlev) ==
  IF WellSeparated(s, t, sa) \/ lev = maxlev
  THEN [leaves |-> 1, deepest |-> lev]
  ELSE Gathered(<< rkernel_2vs_0pg(SubPanel(s, 1), t, sa \div 4, lev + 1, maxlev),
                   rkernel_2vs_0pg(SubPanel(s, 2), t, sa \div 4, lev + 1, maxlev),
                   rkernel_2vs_0pg(SubPanel(s, 3), t, sa \div 4, lev + 1, maxlev),
                   rkernel_2vs_0pg(SubPanel(s, 4), t, sa \div 4, lev + 1, maxlev) >>)

\* rkernel_2vs_2p: panel s of area sa on panel t of area ta, both split
RECURSIVE rkernel_2vs_2p(_, _, _, _, _, _)
rkernel_2vs_2p(s, t, sa, ta, lev, maxlev) ==
  IF WellSeparated2(s, t, sa, ta) \/ lev = maxlev
  THEN [leaves |-> 1, deepest |-> lev]
  ELSE LET OnParts(i) ==
             Gathered(<< rkernel_2vs_2p(SubPanel(s, i), SubPanel(t, 1), sa \div 4, ta \div 4,
                                        lev + 1, maxlev),
                         rkernel_2vs_2p(SubPanel(s, i), SubPanel(t, 2), sa \div 4, ta \div 4,
                                        lev + 1, maxlev),
                         rkernel_2vs_2p(SubPanel(s, i), SubPanel(t, 3), sa \div 4, ta \div 4,
                                        lev + 1, maxlev),
                         rkernel_2vs_2p(SubPanel(s, i), SubPanel(t, 4), sa \div 4, ta \div 4,
                                        lev + 1, maxlev) >>)
       IN Gathered(<< OnParts(1), OnParts(2), OnParts(3), OnParts(4) >>)

\* the length all nodes are multiples of: halved maxlev times it is whole
KUnit == Pow(2, MaxLev + 1)

\* a right triangle with legs of length leg at <<x, y>>, and its area
Panel(x, y, leg) == << <<x, y>>, <<x + leg, y>>, <<x, y + leg>> >>
PanelArea(leg) == (leg * leg) \div 2

\* the source panel of every call
KSource == Panel(0, 0, 4 * KUnit)

\* the target points: a node of the source panel, a point inside it, one
\* near it and one far from it
KPoints == {<<0, 0>>, <<KUnit, KUnit>>, <<6 * KUnit, 0>>, <<40 * KUnit, 0>>}

\* the target panels, as <<x, leg>>: the source panel itself, a smaller one
\* inside it, one sharing a node with it, and one far from it
KPanels == {<<0, 4 * KUnit>>, <<0, 2 * KUnit>>, <<4 * KUnit, 4 * KUnit>>,
            <<40 * KUnit, 4 * KUnit>>}

Call_rkernel_2vs_0p ==
  /\ unit = "kernel" /\ kcall = <<>>
  /\ \E t \in KPoints, maxlev \in 0..MaxLev :
       kcall' = << [kernel |-> "rkernel_2vs_0p", target |-> t, maxlev |-> maxlev,
                    ret |-> rkernel_2vs_0p(KSource, t, PanelArea(4 * KUnit), 0, maxlev)] >>
  /\ UNCHANGED <<physvars, cfgvars, clockvars, sim_is_initialized, reg, pc, asyncvars,
                 batchvars, statvars, unit, vtu, json, cgl, sliver_index>>

Call_rkernel_2vs_0pg ==
  /\ unit = "kernel" /\ kcall = <<>>
  /\ \E t \in KPoints, maxlev \in 0..MaxLev :
       kcall' = << [kernel |-> "rkernel_2vs_0pg", target |-> t, maxlev |-> maxlev,
                    ret |-> rkernel_2vs_0pg(KSource, t, PanelArea(4 * KUnit), 0, maxlev)] >>
  /\ UNCHANGED <<physvars, cfgvars, clockvars, sim_is_initialized, reg, pc, asyncvars,
                 batchvars, statvars, unit, vtu, json, cgl, sliver_index>>

Call_rkernel_2vs_2p ==
  /\ unit = "kernel" /\ kcall = <<>>
  /\ \E t \in KPanels, maxlev \in 0..MaxLev :
       kcall' = << [kernel |-> "rkernel_2vs_2p", target |-> t, maxlev |-> maxlev,
                    ret |-> rkernel_2vs_2p(KSource, Panel(t[1], 0, t[2]),
                                           PanelArea(4 * KUnit), PanelArea(t[2]),
                                           0, maxlev)] >>
  /\ UNCHANGED <<physvars, cfgvars, clockvars, sim_is_initialized, reg, pc, asyncvars,
                 batchvars, statvars, unit, vtu, json, cgl, sliver_index>>

(***************************************************************************)
(* SpecUnits: one of the routines that stand apart from the time step is   *)
(* exercised: the .vtu writers, the JSON of the flow features, computeGL,  *)
(* or the recursive panel kernels.                                         *)
(***************************************************************************)
InitUnits ==
  /\ Constructed
  /\ shed_before_diffuse = TRUE
  /\ NoFrontEnd
  /\ NoBatch
  /\ unit \in {"vtu", "json", "gl", "kernel"}
  /\ vtu = <<>> /\ json = <<>>
  /\ cgl = [cstate |-> "no_compute", nsrc |-> 0, num_slivers |-> 1, done |-> <<>>]
  /\ sliver_index = 0
  /\ kcall = <<>>

NextUnits ==
  \/ WriteVtuPoints
  \/ WriteVtuPanels
  \/ MakeFeature
  \/ WriteJson
  \/ parse_flow_json
  \/ RequestCompute
  \/ computeGL
  \/ Call_rkernel_2vs_0p
  \/ Call_rkernel_2vs_0pg
  \/ Call_rkernel_2vs_2p

SpecUnits == InitUnits /\ [][NextUnits]_vars

(***************************************************************************)
(* Properties of Diffusion::step and Simulation::step.                     *)
(***************************************************************************)
\* the operations of a log with the collection each worked on
Steps(log) == [i \in 1..Len(log) |-> <<log[i].op, log[i].coll>>]

Where(log, op) == {i \in 1..Len(log) : log[i].op = op}

WhereOn(log, op, on) == {i \in 1..Len(log) : log[i].op = op /\ log[i].on = on}

\* a diffusion step of some thread has just returned
DiffusionReturns == \E t \in Threads : pc[t] = "diffuse" /\ pc'[t] = "advect"

\* the log is that of a returned diffusion step, convection not yet done
AfterDiffusion == \E t \in Threads : pc[t] = "advect"

RECURSIVE ShedSteps(_, _)
ShedSteps(bdry_, b) ==
  IF b > Len(bdry_) THEN <<>>
  ELSE (IF bdry_[b].kind = "Surfaces" THEN << <<"shed", b>> >> ELSE <<>>)
       \o ShedSteps(bdry_, b + 1)

RECURSIVE VrmSteps(_, _)
VrmSteps(elemts, c) ==
  IF c > Len(elemts) THEN <<>>
  ELSE (IF elemts[c] # "inert" THEN << <<"vrm", c>>, <<"resize", c>> >> ELSE <<>>)
       \o VrmSteps(elemts, c + 1)

\* the element types of the Points collections VRM finds: those of the list
\* before the step and, when the list was empty, the collection a shed made
ElemtsAtVrm(vort_, bdry_, sbd) ==
  IF Len(vort_) = 0
  THEN (IF sbd /\ ShedSteps(bdry_, 1) # <<>> THEN << "active" >> ELSE <<>>)
  ELSE [c \in 1..Len(vort_) |-> vort_[c].elemt]

ExpectedOrder(vort_, bdry_, sbd) ==
  << <<"clear_inner", 0>>, <<"solve_bem", 0>> >>
  \o (IF sbd THEN ShedSteps(bdry_, 1) ELSE <<>>)
  \o VrmSteps(ElemtsAtVrm(vort_, bdry_, sbd), 1)
  \o << <<"reflect", 0>>, <<"merge", 0>>, <<"clear_inner", 0>> >>
  \o (IF ~sbd THEN ShedSteps(bdry_, 1) ELSE <<>>)
  \o (IF Len(bdry_) > 0 THEN << <<"merge", 0>> >> ELSE <<>>)
  \o << <<"update_max_str", 0>> >>

\* C1: a viscous Diffusion::step does, in this order and nothing else:
\* Clear-Inner, BEM solve, shed (if shed_before_diffuse), VRM and resize per
\* non-inert Points collection, Reflect, Merge, Clear-Inner, shed (if not
\* shed_before_diffuse), Merge (if there are boundaries), update of the
\* cached max strengths; the BEM solve precedes every shed and a shed before
\* diffusion precedes every VRM.
C1_FixedOrder ==
  [][(DiffusionReturns /\ Viscous) =>
       /\ Steps(oplog') = ExpectedOrder(vort, bdry, shed_before_diffuse)
       /\ \A i \in Where(oplog', "shed"), j \in Where(oplog', "solve_bem") : j < i
       /\ \A i \in WhereOn(oplog', "shed", "before"), j \in Where(oplog', "vrm") : i < j]_vars

\* a viscous diffusion step with a surface and a particle has returned
C1_Witness ==
  /\ AfterDiffusion /\ Viscous
  /\ Where(oplog, "shed") # {} /\ Where(oplog, "vrm") # {}
  /\ Len(oplog) >= 10

TotalStr(colls) == SumStr(Concat([c \in 1..Len(colls) |-> colls[c].pts]))

\* C2: with no boundary collections a viscous Diffusion::step (VRM, then
\* Merge) leaves the vector sum of the particle strengths unchanged.
C2_StrengthConserved ==
  [][(DiffusionReturns /\ Viscous /\ Len(bdry) = 0) => TotalStr(vort') = TotalStr(vort)]_vars

\* VRM has moved strength between particles of a cloud without boundaries
C2_Witness ==
  /\ AfterDiffusion /\ Viscous /\ Len(bdry) = 0
  /\ Where(oplog, "vrm") # {}
  /\ \E i \in 1..Len(AllPoints(vort)) :
       AllPoints(vort)[i].s \notin {<<4, 0, 0>>, <<0, -4, 8>>, Zero3}

\* a call of step() has returned
StepCompleted == pc[0] = "idle" /\ nstep > 0

C8_ShedOnce ==
  (AfterDiffusion /\ Viscous) =>
    \A b \in 1..Len(bdry) :
      bdry[b].kind = "Surfaces" =>
        LET S == {i \in Where(oplog, "shed") : oplog[i].coll = b}
        IN /\ Cardinality(S) = 1
           /\ \A i \in S :
                IF shed_before_diffuse
                THEN /\ oplog[i].len = (ShedOnMult * h_nu) \div Scale
                     /\ \A j \in Where(oplog, "vrm") \cup Where(oplog, "reflect") : i < j
                ELSE /\ oplog[i].len = (ShedOffMult * h_nu) \div Scale
                     /\ Cardinality({j \in WhereOn(oplog, "clear_inner", "vort") : j < i}) = 2

\* a surface has been shed after the second Clear-Inner
C8_Witness ==
  /\ AfterDiffusion /\ Viscous /\ ~shed_before_diffuse
  /\ \E i \in Where(oplog, "shed") : oplog[i].len = (ShedOffMult * h_nu) \div Scale

\* C9: every Clear-Inner call of a step uses mode 1 and leaves the number of
\* particles and their strengths as they were.
C9_PushOnly ==
  \A i \in Where(oplog, "clear_inner") : oplog[i].mode = 1 /\ oplog[i].kept

\* a step has made its three Clear-Inner calls with particles, field points
\* and a surface present
C9_Witness ==
  /\ StepCompleted /\ Len(bdry) > 0 /\ NParts(vort) > 0 /\ NParts(fldpt) > 0
  /\ Cardinality(WhereOn(oplog, "clear_inner", "vort")) = 2
  /\ Cardinality(WhereOn(oplog, "clear_inner", "fldpt")) = 1

\* the cutoff distance of a logged Clear-Inner call
CutoffOf(e) == ClearCutoff(e.mult, e.len)

FirstClear == CHOOSE i \in WhereOn(oplog, "clear_inner", "vort") :
                \A j \in WhereOn(oplog, "clear_inner", "vort") : i <= j

SecondClear == CHOOSE i \in WhereOn(oplog, "clear_inner", "vort") :
                 \A j \in WhereOn(oplog, "clear_inner", "vort") : j <= i

TwoClears == Cardinality(WhereOn(oplog, "clear_inner", "vort")) = 2

\* C10 as stated: the first Clear-Inner uses the cutoff (1/sqrt(2 pi))*ips,
\* the second the cutoff vdelta/particle_overlap = ips, the larger one.
C10_SecondCutoffLarger ==
  TwoClears =>
    /\ CutoffOf(oplog[FirstClear]) = (InnerMult * get_ips(dt, re)) \div Scale
    /\ CutoffOf(oplog[SecondClear]) = (get_vdelta(dt, re) * Scale) \div particle_overlap
    /\ CutoffOf(oplog[SecondClear]) > CutoffOf(oplog[FirstClear])

\* C10 as amended: both Clear-Inner calls use the cutoff (1/sqrt(2 pi))*ips;
\* the second passes vdelta/particle_overlap, which is ips, as the length
\* the multiplier scales, so the two cutoffs are equal and under ips.
C10_EqualCutoffs ==
  TwoClears =>
    /\ CutoffOf(oplog[FirstClear]) = (InnerMult * get_ips(dt, re)) \div Scale
    /\ oplog[SecondClear].len = (get_vdelta(dt, re) * Scale) \div particle_overlap
    /\ CutoffOf(oplog[SecondClear]) = CutoffOf(oplog[FirstClear])
    /\ CutoffOf(oplog[SecondClear]) < get_ips(dt, re)

\* both Clear-Inner calls of a diffusion step have been made around a surface
C10_Witness ==
  /\ AfterDiffusion /\ TwoClears /\ Len(bdry) > 0
  /\ FirstClear < SecondClear

(***************************************************************************)
(* Properties of the asynchronous interface.                               *)
(***************************************************************************)
\* C5: at most one step task (first_step or step) executes at any time.
C5_OneTaskAtATime == Cardinality({t \in Tasks : Running(t)}) <= 1

\* C6: reset() clears the simulation only when no step task is executing:
\* it waits for a task in flight, and when it returns no task is running,
\* time, nstep and the collections are cleared and both step flags are false.
C6_ResetWaits ==
  [][Reset =>
       /\ \A t \in Tasks : ~Running(t)
       /\ \A t \in Tasks : pc'[t] = "idle"
       /\ time' = 0 /\ nstep' = 0
       /\ vort' = <<>> /\ bdry' = <<>> /\ fldpt' = <<>>
       /\ bem' = "reset"
       /\ ~step_has_started' /\ ~step_is_finished']_vars

\* reset() has cleared a simulation whose last poll said a task was in flight
C6_Witness ==
  /\ polled = "false" /\ ~step_has_started /\ stepfuture = 0
  /\ bem = "reset" /\ nstep = 0
  /\ h_nu # HnuDefault

\* the task the future refers to has completed
TaskFinished == stepfuture # 0 /\ pc[stepfuture] = "done"

\* what one call of test_for_new_results() does
PollContract ==
  /\ (polled' = "false") <=> (step_has_started /\ ~TaskFinished)
  /\ (step_has_started /\ TaskFinished) =>
       /\ polled' = "true"
       /\ stepfuture' = 0
       /\ step_is_finished'
       /\ ~step_has_started'

\* C7: test_for_new_results never blocks; it returns false exactly when a
\* step has been started and its task has not finished; the poll after the
\* task finishes returns true, consumes the future, sets step_is_finished
\* and clears step_has_started; step_has_started is never true while the
\* future is invalid.
C7_PollNeverBlocks ==
  /\ [](fe = "idle" => (ENABLED TestForNewResults) /\ (step_has_started => stepfuture # 0))
  /\ [][TestForNewResults => PollContract]_vars

\* a poll has reported a finished step
C7_Witness ==
  /\ polled = "true" /\ step_is_finished /\ ~step_has_started
  /\ stepfuture = 0 /\ nstep > 0

(***************************************************************************)
(* Properties of the stopping rule.                                        *)
(***************************************************************************)
\* the stopping rule: 2*time + dt is twice time + 0.5*dt
ShouldHalt ==
  \/ use_max_steps /\ nstep >= max_steps
  \/ use_end_time /\ 2 * time + dt >= 2 * end_time

\* C4: after a completed step the batch main loop is left exactly when
\* (using_max_steps and nstep >= max_steps) or (using_end_time and
\* time + 0.5*dt >= end_time): it goes round again only when the rule does
\* not hold and leaves only when it does.
C4_HaltsWhenDue ==
  /\ (mpc = "loop" /\ nstep > 0) => ~ShouldHalt
  /\ mpc = "finish" => ShouldHalt

(***************************************************************************)
(* C11.  An inviscid Diffusion::step is a no-op.                           *)
(***************************************************************************)
\* C11: when is_inviscid is set, Diffusion::step returns at once: it makes
\* none of the calls (Clear-Inner, BEM, shedding, VRM, Reflect, Merge,
\* update_max_str), so its log is empty, and it leaves the particle
\* collections, the boundary collections, the BEM state and h_nu as they were.
C11_InviscidNoOp ==
  [][(DiffusionReturns /\ is_inviscid)
       => /\ oplog' = <<>>
          /\ vort' = vort
          /\ bdry' = bdry
          /\ bem' = bem
          /\ h_nu' = h_nu]_vars

\* an inviscid diffusion step has returned with particles and a body present
C11_Witness ==
  /\ AfterDiffusion
  /\ is_inviscid
  /\ oplog = <<>>
  /\ NParts(vort) > 0
  /\ NPanels(bdry) > 0
  /\ h_nu = HnuDefault

(***************************************************************************)
(* C12.  The initial step and the drivers.                                 *)
(***************************************************************************)
\* C12: in every run the first step executed after initialization is the
\* initial step, which solves the BEM and advances neither time nor nstep;
\* a full step at step counter 0 is therefore under way only with the BEM
\* already solved by the initial step.
C12_InitialStepFirst ==
  \A t \in Threads : (pc[t] = "diffuse" /\ nstep = 0) => bem = "solved"

(***************************************************************************)
(* C13.  time and nstep count the completed steps.                         *)
(***************************************************************************)
\* C13: whenever no thread is inside first_step() or step(), time equals
\* nstep * dt: each completed step() has added exactly 1 to nstep and
\* exactly dt to time, and nothing else has changed either of them since
\* the last reset.
C13_ClockCounts == (\A t \in Threads : ~Running(t)) => time = nstep * dt

(***************************************************************************)
(* C14.  The push of the field points.                                     *)
(***************************************************************************)
\* the convection half of a step() of some thread has just been done
AdvectReturns == \E t \in Threads : pc[t] = "advect" /\ pc'[t] # "advect"

\* C14: the Clear-Inner push of the field points is made once in a step
\* whose counter, before it is incremented, is a multiple of 5 (steps 0, 5,
\* 10, ...) and in no other step, where the field points are left where the
\* convection put them; it works on fldpt alone: the convection half of a
\* step logs no Clear-Inner of the vortex particles.
C14_FldptEveryFifth ==
  [][AdvectReturns =>
       /\ Cardinality(WhereOn(oplog', "clear_inner", "fldpt"))
            = (IF nstep % 5 = 0 THEN 1 ELSE 0)
       /\ WhereOn(oplog', "clear_inner", "vort") = WhereOn(oplog, "clear_inner", "vort")
       /\ nstep % 5 # 0 =>
            \E fmv \in ConvSet : fldpt' = advect_fldpt(fldpt, fmv)]_vars

\* the step with counter 5 has pushed the field points a second time, and a
\* vortex particle it did not push is inside the body
C14_Witness ==
  /\ pc[0] = "idle"
  /\ nstep = 6
  /\ WhereOn(oplog, "clear_inner", "fldpt") # {}
  /\ NParts(fldpt) > 0
  /\ ~AnyInterior(bdry, fldpt)
  /\ AnyInterior(bdry, vort)

(***************************************************************************)
(* C15, C16.  Merge and Reflect as operations on a particle set.           *)
(***************************************************************************)
\* C15: a Merge pass never increases the number of particles and leaves the
\* vector sum of the strengths and the total impulse, the sum of position
\* cross strength, exactly as they were.
C15_MergeConserves ==
  [][MergePass =>
       /\ NParts(vort') <= NParts(vort)
       /\ TotalStr(vort') = TotalStr(vort)
       /\ TotalImpulse(vort') = TotalImpulse(vort)]_vars

\* the last operation applied was a Reflect
JustReflected == oplog # <<>> /\ oplog[Len(oplog)].op = "reflect"

\* C16: Reflect is idempotent: after one Reflect no particle is interior to
\* any closed surface, and a Reflect applied to what a Reflect left moves no
\* particle and changes no strength.
C16_ReflectIdempotent ==
  /\ [](JustReflected => ~AnyInterior(bdry, vort))
  /\ [][(ReflectPass /\ JustReflected) => vort' = vort]_vars

(***************************************************************************)
(* C17.  The field points are traced, never remeshed.                      *)
(***************************************************************************)
\* the number of points in each collection
Counts(colls) == [c \in 1..Len(colls) |-> Len(colls[c].pts)]

\* C17: Simulation::step leaves the number of points of every fldpt
\* collection, and their zero strengths, as they were: VRM, Merge, Reflect
\* and Split are applied to the vort collections only, the diffusion half of
\* the step does not touch fldpt at all, and no particle that shedding, VRM
\* or splitting creates is added to fldpt.
C17_FldptKept ==
  [][(DiffusionReturns \/ AdvectReturns) =>
       /\ Counts(fldpt') = Counts(fldpt)
       /\ Strengths(fldpt') = Strengths(fldpt)
       /\ DiffusionReturns => fldpt' = fldpt
       /\ \A i \in 1..Len(oplog') :
            oplog'[i].op \in {"vrm", "reflect", "merge", "split"} => oplog'[i].on = "vort"]_vars

\* a viscous step has shed, diffused and split particles around a body and
\* pushed the one field point out of it
C17_Witness ==
  /\ StepCompleted
  /\ Counts(fldpt) = <<1>>
  /\ ~AnyInterior(bdry, fldpt)
  /\ WhereOn(oplog, "clear_inner", "fldpt") # {}
  /\ Where(oplog, "shed") # {}
  /\ Where(oplog, "vrm") # {}
  /\ NParts(vort) = MaxParts

(***************************************************************************)
(* C18.  The radius add_particles gives a particle.                        *)
(***************************************************************************)
\* the i-th particle of the batch as add_particles has just stored it
Stored(i) == AllPoints(vort')[NParts(vort) + i]

\* add_particles has just been called with a batch that is not empty
Adds(invec) == invec # <<>> /\ AddParticles(invec)

\* C18 as stated: add_particles stores a particle with radius vdelta when
\* its input radius is zero, and with the radius it was given otherwise.
C18_ZeroRadiusOnly ==
  [][\A invec \in ParticleBatches :
       Adds(invec) =>
         \A i \in 1..Len(invec) :
           Stored(i).r = IF invec[i].r = 0 THEN get_vdelta(dt, re) ELSE invec[i].r]_vars

\* C18: add_particles stores every particle of the batch with radius vdelta,
\* whatever radius it was given, zero or not, keeping its position and
\* strength; an empty batch changes nothing and creates no collection.
C18_RadiusOverwritten ==
  /\ [](add_particles(vort, <<>>, get_vdelta(dt, re)) = vort)
  /\ [][\A invec \in ParticleBatches :
          Adds(invec) =>
            /\ NParts(vort') = NParts(vort) + Len(invec)
            /\ \A i \in 1..Len(invec) :
                 /\ Stored(i).r = get_vdelta(dt, re)
                 /\ Stored(i).x = invec[i].x
                 /\ Stored(i).s = invec[i].s]_vars

\* the particle handed in with radius 7 is stored, before any step, with
\* radius vdelta
C18_Witness ==
  /\ nstep = 0 /\ pc[0] = "idle"
  /\ \E i \in 1..NParts(vort) :
       /\ AllPoints(vort)[i].x = 12000
       /\ AllPoints(vort)[i].s = <<0, -4, 8>>
       /\ AllPoints(vort)[i].r = get_vdelta(dt, re)
       /\ AllPoints(vort)[i].r # 7

(***************************************************************************)
(* C19, C20.  The exit code of the batch driver and the initialization     *)
(* check.                                                                  *)
(***************************************************************************)
\* nothing of a JSON file has been read and nothing has been run
NothingRead ==
  /\ ffeatures = <<>> /\ bfeatures = <<>>
  /\ fs = Zero3 /\ ~use_max_steps /\ ~use_end_time
  /\ ~sim_is_initialized
  /\ vort = <<>> /\ bdry = <<>> /\ fldpt = <<>>
  /\ nstep = 0 /\ time = 0 /\ bem = "reset" /\ h_nu = HnuDefault

\* main returns
Exits == mpc # "exit" /\ mpc' = "exit"

InitErrors == {sim_err_msg[i] : i \in 1..Len(sim_err_msg)}

\* no flow feature of the configuration is enabled
NoEnabledFeature == \A i \in 1..Len(ffeatures) : ~ffeatures[i].enabled

\* C20: once the simulation is initialized, check_initialization has left
\* the "no flow features and no bodies" message exactly when the
\* configuration has no enabled flow feature and no boundary panels, and the
\* message of too many panels exactly when the panels number more than
\* 21000; and whenever it has left any message the batch driver has returned
\* without a step.
C20_InitErrors ==
  sim_is_initialized =>
    /\ ("no_features" \in InitErrors) <=> (NoEnabledFeature /\ get_npanels(bfeatures) = 0)
    /\ ("too_many_panels" \in InitErrors) <=> (get_npanels(bfeatures) > 21000)
    /\ sim_err_msg # <<>> =>
         (mpc = "exit" /\ exit_code = 1 /\ nstep = 0 /\ time = 0 /\ pc[0] = "idle")

(***************************************************************************)
(* C21.  Elongation and the start of a step.                               *)
(***************************************************************************)
\* thread 0 enters step()
StepStarts == pc[0] # "diffuse" /\ pc'[0] = "diffuse"

\* two neighbours of vort are the halves Split made of one particle
SplitPair ==
  LET pts == AllPoints(vort)
  IN \E i \in 1..(Len(pts) - 1) :
       /\ pts[i + 1].x - pts[i].x = 2 * (pts[i].r \div 2)
       /\ pts[i + 1].r = pts[i].r
       /\ pts[i].elong = 10 /\ pts[i + 1].elong = 10
       /\ VSub(pts[i + 1].s, pts[i].s) \in {Zero3} \cup {<<a, b, c>> : a, b, c \in 0..1}

StepCompletes ==
  /\ pc[0] = "advect" /\ pc'[0] = "idle"
  /\ nstep' = nstep + 1 /\ time' = time + dt

\* C24: the value of test_vs_stop_async while a step is in flight is the
\* value of test_vs_stop once that step has completed, for the step and the
\* time criterion and every end_time.
C24_AsyncStopAgrees ==
  [][StepCompletes => (test_vs_stop_async <=> test_vs_stop')]_vars

(***************************************************************************)
(* C25, C26.  The collections of vort and bdry.                            *)
(***************************************************************************)
\* C25: vort never holds more than one collection, and that one is Points:
\* a collection is made only when vort is empty, and whatever is added to a
\* vort that is not empty is appended to the collection it has.
C25_OneVortCollection ==
  /\ [](Len(vort) <= 1 /\ \A c \in 1..Len(vort) : vort[c].kind = "Points")
  /\ [][Len(vort') > Len(vort) => vort = <<>>]_vars
  /\ [][(vort # <<>> /\ NParts(vort') > NParts(vort)) =>
          (Len(vort') = 1 /\ Len(vort'[1].pts) > Len(vort[1].pts))]_vars

\* three Surfaces collections have shed into a particle list that was empty,
\* and a user particle has been added to it before
C25_Witness ==
  /\ Len(bdry) = 3
  /\ Cardinality({oplog[i].coll : i \in Where(oplog, "shed")}) = 3
  /\ Len(vort) = 1
  /\ NParts(vort) >= NPanels(bdry)

\* the pair (movement type, body) of a boundary collection
MoveAndBody(coll) == <<coll.movet, coll.body>>

\* C26: no two collections of bdry have the same movement type and body, so
\* there is at most one collection for each body and one for the fixed
\* geometry; add_boundary makes a new collection only for a pair bdry does
\* not have yet, appends to the collection of the pair otherwise, and leaves
\* bdry as it is when given no geometry.
C26_OneCollectionPerBody ==
  /\ [](\A i, j \in 1..Len(bdry) :
          MoveAndBody(bdry[i]) = MoveAndBody(bdry[j]) => i = j)
  /\ [](\A i \in 1..Len(bdry) :
          /\ bdry[i].kind = "Surfaces"
          /\ (bdry[i].movet = "fixed") <=> (bdry[i].body = 0))
  /\ [][\A bptr \in 0..2 :
          OpsAddBoundary(bptr, FALSE) => bdry' = bdry]_vars
  /\ [][\A bptr \in 0..2 :
          OpsAddBoundary(bptr, TRUE) =>
            /\ NPanels(bdry') = NPanels(bdry) + 2
            /\ Len(bdry') = IF \E i \in 1..Len(bdry) : bdry[i].body = bptr
                            THEN Len(bdry) ELSE Len(bdry) + 1]_vars

\* the geometry of three boundary features is in two collections: two
\* features of one body, with a feature of another owner added in between
C26_Witness ==
  /\ Len(bdry) = 2
  /\ NPanels(bdry) = 6
  /\ Len(bdry[1].panels) = 4
  /\ bdry[1].body # 0

(***************************************************************************)
(* C27.  The freestream test of check_initialization.                      *)
(***************************************************************************)
\* C27: with boundary panels and no particles, check_initialization leaves
\* the message of zero freestream, no movement and no driven boundaries
\* only when all three components of the freestream are zero and no body
\* moves.
C27_ZeroFreestream ==
  (sim_is_initialized /\ "no_flow" \in InitErrors) =>
    /\ fs = Zero3
    /\ ~do_any_bodies_move(bdry)
    /\ NPanels(bdry) > 0 /\ NParts(vort) = 0

(***************************************************************************)
(* C28.  The difference calculate_simple_forces divides by.                *)
(***************************************************************************)
\* a status line is written
LineWritten == sf'.lines = sf.lines + 1

\* C28: whenever a status line is written, the difference (time - last_time)
\* that calculate_simple_forces divides by is strictly positive; it is the
\* time step for the first line of a run, and the time gone by since the
\* line before for every later line of a step; and the first line of a run
\* takes the impulse of the run alone, nothing of what last_impulse held
\* before the reset.
C28_ForceDenominator ==
  [][LineWritten =>
       LET f == calculate_simple_forces(time', dt, last_time, last_impulse,
                                        TotalImpulse(vort'))
       IN /\ f.den > 0
          /\ sf.lines = 0 => (f.den = dt /\ f.num = TotalImpulse(vort'))
          /\ (sf.lines > 0 /\ time' > time) => f.den = time' - time]_vars

(***************************************************************************)
(* C22.  The index arrays of a .vtu file.                                  *)
(***************************************************************************)
\* a value fits the type named in the type attribute; every count written
\* here is far below what UInt32 holds
FitsType(v, type) == type = "UInt16" => v <= UInt16Max

\* C22: in every .vtu file written, each value of the connectivity and of
\* the offsets array is the value the cell layout asks for and fits the type
\* named in the array's type attribute (at most 65535 under UInt16).  Both
\* arrays grow with the place, so the last value is the one that decides.
C22_VtuIndexType ==
  \A k \in 1..Len(vtu) :
    LET f == vtu[k]
    IN /\ FitsType(f.n - 1, f.type)
       /\ ConnectivityWritten(f) = f.n - 1
       /\ FitsType(OffsetsMeant(f, f.ncells), f.type)
       /\ OffsetsWritten(f, f.ncells) = OffsetsMeant(f, f.ncells)

(***************************************************************************)
(* C23.  The JSON field names of the flow features.                        *)
(***************************************************************************)
\* C23: for each of the six flow features from_json reads the keys to_json
\* writes, so a feature written with to_json and read back by
\* parse_flow_json is the feature that was written.
C23_JsonRoundTrip ==
  \A k \in 1..Len(json) :
    json[k].stage = "parsed" =>
      /\ KeysOf(ReadKeys(json[k].feature.class)) = KeysOf(WrittenKeys(json[k].feature.class))
      /\ json[k].flist = << json[k].feature >>

(***************************************************************************)
(* C29.  The slivers of computeGL.                                         *)
(***************************************************************************)
\* the slivers dispatched that hold source s
SliversHolding(s) ==
  {k \in 1..Len(cgl.done) :
     cgl.done[k].src_offset <= s /\ s < cgl.done[k].src_offset + cgl.done[k].src_count}

\* C29: in every sliver computeGL dispatches no unsigned difference wraps and
\* src_offset + src_count is at most nsrc; compute_done is stored only in the
\* call of the last sliver; and once the computation is complete the slivers
\* hold every source exactly once.
C29_SliversCoverSources ==
  /\ \A k \in 1..Len(cgl.done) :
       /\ ~cgl.done[k].wrapped
       /\ cgl.done[k].src_offset + cgl.done[k].src_count <= cgl.nsrc
       /\ cgl.done[k].compute_done <=> k = cgl.num_slivers
  /\ (cgl.done # <<>> /\ cgl.cstate = "no_compute") =>
       \A s \in 0..(cgl.nsrc - 1) : Cardinality(SliversHolding(s)) = 1

(***************************************************************************)
(* C30.  The recursion of the panel kernels ends.                          *)
(***************************************************************************)
\* C30: a call of rkernel_2vs_0p, rkernel_2vs_0pg or rkernel_2vs_2p with
\* lev = 0 returns; no call is made with lev above maxlev, and it runs at
\* most 4^maxlev point kernels, 16^maxlev for the panel on panel kernel,
\* wherever the target lies, on the source panel too.
C30_KernelRecursionBounded ==
  \A k \in 1..Len(kcall) :
    /\ kcall[k].ret.deepest <= kcall[k].maxlev
    /\ kcall[k].ret.leaves >= 1
    /\ kcall[k].ret.leaves <=
         Pow(IF kcall[k].kernel = "rkernel_2vs_2p" THEN 16 ELSE 4, kcall[k].maxlev)

\* the panel is split down to maxlev for a target on the source panel
C30_Witness ==
  /\ kcall # <<>>
  /\ kcall[1].kernel = "rkernel_2vs_0p"
  /\ kcall[1].target = <<KUnit, KUnit>>
  /\ kcall[1].maxlev = MaxLev
  /\ kcall[1].ret.deepest = MaxLev
  /\ kcall[1].ret.leaves > 1

====
